---- MODULE Spec2Model ----
(***************************************************************************)
(* Model of dskit: the retry engine (package retry), the construction of   *)
(* its policies, and the circuit breaker with its count window and its     *)
(* executor (package circuitbreaker).                                      *)
(*                                                                         *)
(* Spec is one retry.Execute call driven through its attempts, backoff     *)
(* waits and exits, with the parent context, the per-attempt child context *)
(* and the backoff timer as the environment.  Wall-clock values            *)
(* (Timestamp, Duration, TotalDuration) and the policy name are not part   *)
(* of the state: no branch reads them.  The user function is modelled by   *)
(* what it returns; the engine does not trap a panic of the function,      *)
(* which unwinds through Execute after the deferred RecordOutcome; such    *)
(* calls are not part of Spec, and PanicSpec is Spec with them.            *)
(*                                                                         *)
(* PolicySpec is a call of NewPolicy or NewCircuitAwarePolicy followed by  *)
(* ShouldRetryError calls on the policy returned.  BreakerSpec is one      *)
(* breaker under concurrent callers of circuitbreaker.Execute.             *)
(* CircuitSpec is one retry.ExecuteWithCircuit call.  Each specification   *)
(* holds the variables of the others at rest.                              *)
(***************************************************************************)
EXTENDS Integers, Sequences, FiniteSets, TLC

(***************************************************************************)
(* Bounds.                                                                 *)
(***************************************************************************)
\* largest policy.maxAttempts explored
MaxAttemptsBound == 3

(***************************************************************************)
(* Errors.  An error is its unwrap chain, outermost first; nil is the      *)
(* empty chain.  errors.Is walks the chain comparing by identity.          *)
(***************************************************************************)
Nil == <<>>

Canceled == <<"context.Canceled">>

DeadlineExceeded == <<"context.DeadlineExceeded">>

ErrResultPredicateRetry == <<"ErrResultPredicateRetry">>

E1 == <<"E1">>

E2 == <<"E2">>

\* fmt.Errorf("...: %w", E1)
WrapE1 == <<"wrap", "E1">>

\* errors.Is(err, target)
Is(err, target) ==
    /\ err # Nil
    /\ target # Nil
    /\ \E i \in 1..Len(err) : SubSeq(err, i, Len(err)) = target

\* the child context of an attempt does not exist outside executeAttempt
NoCtx == <<"no attempt context">>

(***************************************************************************)
(* Vocabulary of the telemetry records.                                    *)
(***************************************************************************)
OutcomeStatusSuccess == "success"

OutcomeStatusError == "error"

OutcomeFailureReasonExhausted == "exhausted"

OutcomeFailureReasonTimeout == "timeout"

OutcomeFailureReasonCanceled == "canceled"

OutcomeFailureReasonNonRetryable == "non_retryable"

AttemptStatusSuccess == "success"

AttemptStatusError == "error"

AttemptFailureReasonError == "error"

AttemptFailureReasonTimeout == "timeout"

AttemptFailureReasonCanceled == "canceled"

AttemptFailureReasonResult == "result"

(***************************************************************************)
(* Backoff strategies consumed by the engine.                              *)
(***************************************************************************)
\* Fixed.Next
FixedNext(interval, attempt) == interval

\* faulty variant: the first wait is zero
LinearNextFromZero(interval, attempt) == (attempt - 1) * interval

\* Linear.Next
LinearNext(interval, attempt) == attempt * interval

\* p.backoff.Next(attempt), dispatched on the strategy the policy holds
BackoffNext(b, attempt) ==
    IF b.kind = "fixed" THEN FixedNext(b.interval, attempt)
    ELSE LinearNext(b.interval, attempt)

(***************************************************************************)
(* Policy.                                                                 *)
(***************************************************************************)
\* the result predicate the explored policies carry: v == "bad"
ResultPredicate(v) == v = "bad"

\* how a policy classifies errors: the predicate (set: whether it is non-nil,
\* accepts: the errors it returns true for) and the two lists
ErrorConfigs ==
    { [pred |-> [set |-> FALSE, accepts |-> {}],
       retryErrors |-> <<>>, ignoreErrors |-> <<>>],
      [pred |-> [set |-> FALSE, accepts |-> {}],
       retryErrors |-> <<>>, ignoreErrors |-> <<E1>>],
      [pred |-> [set |-> FALSE, accepts |-> {}],
       retryErrors |-> <<E2>>, ignoreErrors |-> <<>>],
      [pred |-> [set |-> FALSE, accepts |-> {}],
       retryErrors |-> <<E1, E2>>, ignoreErrors |-> <<E1>>],
      [pred |-> [set |-> TRUE, accepts |-> {E2, Canceled}],
       retryErrors |-> <<E1>>, ignoreErrors |-> <<E2>>] }

Backoffs == { [kind |-> "fixed", interval |-> 0], [kind |-> "linear", interval |-> 1] }

\* the policies Validate accepts, within the bounds
Policies ==
    { [maxAttempts |-> m, attemptTimeout |-> t, backoff |-> b,
       retryOnResultPredicate |-> rp,
       retryOnErrorPredicate |-> c.pred,
       retryErrors |-> c.retryErrors, ignoreErrors |-> c.ignoreErrors] :
         m \in 1..MaxAttemptsBound, t \in {0, 1}, b \in Backoffs,
         rp \in BOOLEAN, c \in ErrorConfigs }

\* faulty variant: the allow list is consulted before the deny list
ShouldRetryErrorAllowFirst(p, err) ==
    IF err = Nil THEN FALSE
    ELSE IF p.retryOnErrorPredicate.set THEN err \in p.retryOnErrorPredicate.accepts
    ELSE IF Len(p.retryErrors) > 0
         THEN \E i \in 1..Len(p.retryErrors) : Is(err, p.retryErrors[i])
    ELSE IF \E i \in 1..Len(p.ignoreErrors) : Is(err, p.ignoreErrors[i]) THEN FALSE
    ELSE TRUE

\* Policy.ShouldRetryError
ShouldRetryError(p, err) ==
    IF err = Nil THEN FALSE
    ELSE IF p.retryOnErrorPredicate.set THEN err \in p.retryOnErrorPredicate.accepts
    ELSE IF \E i \in 1..Len(p.ignoreErrors) : Is(err, p.ignoreErrors[i]) THEN FALSE
    ELSE IF Len(p.retryErrors) > 0
         THEN \E i \in 1..Len(p.retryErrors) : Is(err, p.retryErrors[i])
    ELSE TRUE

(***************************************************************************)
(* Classification helpers of the engine.                                   *)
(***************************************************************************)
\* faulty variant: DeadlineExceeded is reported as a cancellation
classifyAttemptFailureNoTimeout(err) ==
    IF err = Nil THEN ""
    ELSE IF Is(err, Canceled) \/ Is(err, DeadlineExceeded) THEN AttemptFailureReasonCanceled
    ELSE AttemptFailureReasonError

\* classifyAttemptFailure
classifyAttemptFailure(err) ==
    IF err = Nil THEN ""
    ELSE IF Is(err, DeadlineExceeded) THEN AttemptFailureReasonTimeout
    ELSE IF Is(err, Canceled) THEN AttemptFailureReasonCanceled
    ELSE AttemptFailureReasonError

\* faulty variant: DeadlineExceeded is not told apart from Canceled
classifyContextErrorAlwaysCanceled(err) ==
    IF err = Nil THEN "" ELSE OutcomeFailureReasonCanceled

classifyContextError(err) ==
    IF err = Nil THEN ""
    ELSE IF Is(err, DeadlineExceeded) THEN OutcomeFailureReasonTimeout
    ELSE OutcomeFailureReasonCanceled

\* what the user function may return: (value, error) pairs
FnReturns ==
    { [v |-> "good", e |-> Nil], [v |-> "bad", e |-> Nil],
      [v |-> "zero", e |-> E1], [v |-> "good", e |-> E2],
      [v |-> "zero", e |-> WrapE1],
      [v |-> "zero", e |-> Canceled], [v |-> "zero", e |-> DeadlineExceeded] }

\* faulty variant: the retryability of a result-predicate failure is asked of
\* ShouldRetryError, as for any other error
executeAttemptResultByPolicy(p, attemptNum, attemptResult, attemptErr) ==
    LET shouldRetryResult ==
            /\ attemptErr = Nil
            /\ p.retryOnResultPredicate
            /\ ResultPredicate(attemptResult)
        err == IF shouldRetryResult THEN ErrResultPredicateRetry ELSE attemptErr
    IN  IF attemptErr = Nil /\ ~shouldRetryResult
        THEN [result |-> attemptResult,
              attempt |-> [Number |-> attemptNum, Status |-> AttemptStatusSuccess,
                           FailureReason |-> "", Error |-> Nil, Retryable |-> FALSE],
              success |-> TRUE, retryable |-> FALSE]
        ELSE [result |-> "zero",
              attempt |-> [Number |-> attemptNum, Status |-> AttemptStatusError,
                           FailureReason |->
                               IF shouldRetryResult THEN AttemptFailureReasonResult
                               ELSE classifyAttemptFailure(attemptErr),
                           Error |-> err,
                           Retryable |-> ShouldRetryError(p, err)],
              success |-> FALSE, retryable |-> ShouldRetryError(p, err)]

\* executeAttempt after safeExecute returned (attemptResult, attemptErr):
\* the attemptOutcome it builds
executeAttempt(p, attemptNum, attemptResult, attemptErr) ==
    LET shouldRetryResult ==
            /\ attemptErr = Nil
            /\ p.retryOnResultPredicate
            /\ ResultPredicate(attemptResult)
    IN  IF attemptErr = Nil /\ ~shouldRetryResult
        THEN [result |-> attemptResult,
              attempt |-> [Number |-> attemptNum, Status |-> AttemptStatusSuccess,
                           FailureReason |-> "", Error |-> Nil, Retryable |-> FALSE],
              success |-> TRUE, retryable |-> FALSE]
        ELSE IF shouldRetryResult
        THEN [result |-> "zero",
              attempt |-> [Number |-> attemptNum, Status |-> AttemptStatusError,
                           FailureReason |-> AttemptFailureReasonResult,
                           Error |-> ErrResultPredicateRetry, Retryable |-> TRUE],
              success |-> FALSE, retryable |-> TRUE]
        ELSE [result |-> "zero",
              attempt |-> [Number |-> attemptNum, Status |-> AttemptStatusError,
                           FailureReason |-> classifyAttemptFailure(attemptErr),
                           Error |-> attemptErr,
                           Retryable |-> ShouldRetryError(p, attemptErr)],
              success |-> FALSE, retryable |-> ShouldRetryError(p, attemptErr)]

(***************************************************************************)
(* State.                                                                  *)
(***************************************************************************)
VARIABLES
    policy,         \* the *Policy passed to Execute
    ctxErr,         \* ctx.Err() of the parent context
    attemptCtxErr,  \* attemptCtx.Err() of the current attempt's child context
    pc,             \* where the Execute call stands
    attemptCount,   \* execute's attemptCount
    retryErr,       \* execute's retryErr: Attempts and TerminationError
    outcome,        \* execute's outcome: Status and FailureReason
    timerFired,     \* contextWaiter's timer has put its tick on timer.C
    events,         \* what the metrics reporter was handed, in order
    ret,            \* what Execute returned: value and whether err is retryErr
    fnCalls,        \* number of invocations of the user function
    waits,          \* number of backoff waits begun (timers created)
    skips,          \* number of attempts in which safeExecute did not invoke fn
    last,           \* history: what safeExecute returned in the latest attempt
    cancelAt,       \* history: where the call stood when the parent was canceled
    ctor,           \* the constructor called: NewPolicy or NewCircuitAwarePolicy
    options,        \* the options handed to the constructor
    newRet,         \* what the constructor returned: policy and error
    asked,          \* the latest ShouldRetryError(err) call on the policy and its answer
    cb,             \* the circuitBreakerImpl: state, leases, window, config
    calls,          \* per caller of circuitbreaker.Execute: where its call stands
    admitted,       \* history: calls before() let through since HalfOpen was entered
    userCalls,      \* number of invocations of the function guarded by the breaker
    lastCall,       \* history: the latest before() or after(), its error, the state it found
    reported,       \* what the breaker's Metrics reporter (Config.Metrics) was handed
    ticket,         \* history, per caller: what its call in flight was admitted with
    window,         \* a CountWindow used on its own: ring and counters
    capacity,       \* history: the size that window was made with
    sinceReset,     \* history: RecordOutcome calls on that window since the last Reset
    past,           \* history: the outcomes of those calls, oldest first
    mu,             \* circuitBreakerImpl.mu: the callers inside its critical section
    local,          \* per caller inside before() or after(): what it has read, its arguments
    serial,         \* history: the breaker had the same calls run one after another
    exponential,    \* a backoff.Exponential: its four fields
    nextCall,       \* the latest Next(attempt) on it: the argument and the duration returned
    prevCall,       \* history: the Next(attempt) call before that one
    globalMetrics,  \* retry._globalMetrics: what the atomic.Value holds
    lastSet,        \* history: the latest SetGlobalMetrics(m), and whether it panicked
    got             \* per goroutine: what its latest GetGlobalMetrics() returned

vars == <<policy, ctxErr, attemptCtxErr, pc, attemptCount, retryErr, outcome,
          timerFired, events, ret, fnCalls, waits, skips, last, cancelAt>>

constructionVars == <<ctor, options, newRet, asked>>

breakerVars == <<cb, calls, admitted, userCalls, lastCall, reported, ticket>>

windowVars == <<window, capacity, sinceReset, past>>

lockVars == <<mu, local, serial>>

exponentialVars == <<exponential, nextCall, prevCall>>

metricsVars == <<globalMetrics, lastSet, got>>

libraryVars == <<windowVars, lockVars, exponentialVars, metricsVars>>

allVars == <<vars, constructionVars, breakerVars, libraryVars>>

NotCanceled == [pc |-> "never", attempt |-> 0]

NoAttemptYet == [set |-> FALSE, v |-> "zero", e |-> Nil]

NoReturn == [returned |-> FALSE, value |-> "zero", isRetryErr |-> FALSE]

\* no policy is being constructed
NotConstructed == [built |-> FALSE, policy |-> [nil |-> TRUE], err |-> Nil]

NotAsked == [set |-> FALSE, err |-> Nil, answer |-> FALSE]

ConstructionIdle ==
    /\ ctor = "none"
    /\ options = <<>>
    /\ newRet = NotConstructed
    /\ asked = NotAsked

\* no circuit breaker takes part
BreakerIdle ==
    /\ cb = [state |-> "none"]
    /\ calls = <<>>
    /\ admitted = 0
    /\ userCalls = 0
    /\ lastCall = [op |-> "none", err |-> Nil, from |-> "none", invoked |-> FALSE]
    /\ reported = <<>>
    /\ ticket = <<>>

\* no window is used on its own
WindowIdle ==
    /\ window = [nil |-> TRUE]
    /\ capacity = 0
    /\ sinceReset = 0
    /\ past = <<>>

\* the breaker's mutex is not part of the run
LockIdle ==
    /\ mu = {}
    /\ local = <<>>
    /\ serial = [state |-> "none"]

\* no backoff.Exponential is asked for a duration
NoNextCall == [set |-> FALSE, attempt |-> 0, d |-> 0]

ExponentialIdle ==
    /\ exponential = [nil |-> TRUE]
    /\ nextCall = NoNextCall
    /\ prevCall = NoNextCall

\* the global metrics reporter is not part of the run
MetricsIdle ==
    /\ globalMetrics = [nil |-> TRUE]
    /\ lastSet = [called |-> FALSE]
    /\ got = <<>>

\* the parts of the library used on their own are at rest
LibraryIdle == WindowIdle /\ LockIdle /\ ExponentialIdle /\ MetricsIdle

\* the start of execute: nothing attempted, nothing reported
ExecuteInit ==
    /\ ctxErr \in {Nil, Canceled, DeadlineExceeded}
    /\ attemptCtxErr = NoCtx
    /\ pc = "idle"
    /\ attemptCount = 0
    /\ retryErr = [Attempts |-> <<>>, TerminationError |-> Nil]
    /\ outcome = [Status |-> "", FailureReason |-> ""]
    /\ timerFired = FALSE
    /\ events = <<>>
    /\ ret = NoReturn
    /\ fnCalls = 0
    /\ waits = 0
    /\ skips = 0
    /\ last = NoAttemptYet
    /\ cancelAt = IF ctxErr = Nil THEN NotCanceled ELSE [pc |-> "idle", attempt |-> 0]

Init ==
    /\ policy \in Policies
    /\ ExecuteInit
    /\ ConstructionIdle
    /\ BreakerIdle
    /\ LibraryIdle

(***************************************************************************)
(* The metrics reporter: the model keeps what it is handed.                *)
(***************************************************************************)
\* metricsReporter.RecordAttempt(ctx, ao.attempt)
RecordAttempt(evts, attempt) ==
    Append(evts, [kind |-> "attempt", Number |-> attempt.Number,
                  Status |-> attempt.Status, FailureReason |-> attempt.FailureReason,
                  Error |-> attempt.Error, Retryable |-> attempt.Retryable])

\* metricsReporter.RecordBackoff(ctx, p.name, attemptCount, backoffDuration)
RecordBackoff(evts, attempt, duration) ==
    Append(evts, [kind |-> "backoff", Number |-> attempt, Duration |-> duration])

\* the deferred function of execute: fill in TotalAttempts, RecordOutcome
RecordOutcome(evts, o, count) ==
    Append(evts, [kind |-> "outcome", TotalAttempts |-> count,
                  Status |-> o.Status, FailureReason |-> o.FailureReason])

(***************************************************************************)
(* The environment: the parent context and the timers.                     *)
(***************************************************************************)
\* the parent context is canceled (cancel function, or its deadline passes);
\* a live child context is canceled with it, and a waiter blocked in its
\* select is woken on ctx.Done()
CancelParent(e) ==
    /\ ctxErr = Nil
    /\ pc # "done"
    /\ ctxErr' = e
    /\ attemptCtxErr' = IF attemptCtxErr = Nil THEN e ELSE attemptCtxErr
    /\ pc' = IF pc = "waitBlocked" THEN "wokenDone" ELSE pc
    /\ cancelAt' = [pc |-> pc, attempt |-> attemptCount]
    /\ UNCHANGED <<policy, attemptCount, retryErr, outcome, timerFired, events,
                   ret, fnCalls, waits, skips, last>>
    /\ UNCHANGED <<constructionVars, breakerVars, libraryVars>>

\* the deadline of context.WithTimeout(ctx, p.attemptTimeout) passes
DeadlineFire ==
    /\ policy.attemptTimeout > 0
    /\ pc \in {"safeExecute", "inFn"}
    /\ attemptCtxErr = Nil
    /\ attemptCtxErr' = DeadlineExceeded
    /\ UNCHANGED <<policy, ctxErr, pc, attemptCount, retryErr, outcome, timerFired,
                   events, ret, fnCalls, waits, skips, last, cancelAt>>
    /\ UNCHANGED <<constructionVars, breakerVars, libraryVars>>

\* the backoff timer fires; a waiter blocked in its select is woken on timer.C
TimerFire ==
    /\ pc \in {"waitEnter", "waitBlocked"}
    /\ ~timerFired
    /\ timerFired' = TRUE
    /\ pc' = IF pc = "waitBlocked" THEN "wokenTimer" ELSE pc
    /\ UNCHANGED <<policy, ctxErr, attemptCtxErr, attemptCount, retryErr, outcome,
                   events, ret, fnCalls, waits, skips, last, cancelAt>>
    /\ UNCHANGED <<constructionVars, breakerVars, libraryVars>>

(***************************************************************************)
(* Execute.                                                                *)
(***************************************************************************)
\* faulty variant: attemptCount starts at 0
ExecuteFromZero ==
    /\ pc = "idle"
    /\ attemptCount' = 0
    /\ retryErr' = [Attempts |-> <<>>, TerminationError |-> Nil]
    /\ outcome' = [Status |-> OutcomeStatusError, FailureReason |-> ""]
    /\ pc' = "attempt"
    /\ UNCHANGED <<policy, ctxErr, attemptCtxErr, timerFired, events, ret, fnCalls,
                   waits, skips, last, cancelAt>>
    /\ UNCHANGED <<constructionVars, breakerVars, libraryVars>>

\* Execute -> execute, up to the loop: the locals and the deferred RecordOutcome
Execute ==
    /\ pc = "idle"
    /\ attemptCount' = 1
    /\ retryErr' = [Attempts |-> <<>>, TerminationError |-> Nil]
    /\ outcome' = [Status |-> OutcomeStatusError, FailureReason |-> ""]
    /\ pc' = "attempt"
    /\ UNCHANGED <<policy, ctxErr, attemptCtxErr, timerFired, events, ret, fnCalls,
                   waits, skips, last, cancelAt>>
    /\ UNCHANGED <<constructionVars, breakerVars, libraryVars>>

\* executeAttempt, up to the call of safeExecute: the child context, which is
\* born canceled when the parent already is
AttemptScope ==
    /\ pc = "attempt"
    /\ attemptCtxErr' = ctxErr
    /\ pc' = "safeExecute"
    /\ UNCHANGED <<policy, ctxErr, attemptCount, retryErr, outcome, timerFired,
                   events, ret, fnCalls, waits, skips, last, cancelAt>>
    /\ UNCHANGED <<constructionVars, breakerVars, libraryVars>>

\* execute's return: the deferred function runs, the caller gets (value, err)
Return(evts, o, value, isRetryErr) ==
    /\ outcome' = o
    /\ events' = RecordOutcome(evts, o, attemptCount)
    /\ ret' = [returned |-> TRUE, value |-> value, isRetryErr |-> isRetryErr]
    /\ pc' = "done"

\* faulty variant: the success path leaves outcome.Status as initialised
successOutcomeUnset(o) == o

\* execute on success: outcome.Status = OutcomeStatusSuccess
successOutcome(o) == [o EXCEPT !.Status = OutcomeStatusSuccess]

\* faulty variant: > for >= in the exhaustion test
terminalReasonOffByOne(ao, p, count) ==
    IF ~ao.retryable THEN OutcomeFailureReasonNonRetryable
    ELSE IF count > p.maxAttempts THEN OutcomeFailureReasonExhausted
    ELSE ""

\* faulty variant: the exhaustion test comes before the retryability test
terminalReasonExhaustedFirst(ao, p, count) ==
    IF count >= p.maxAttempts THEN OutcomeFailureReasonExhausted
    ELSE IF ~ao.retryable THEN OutcomeFailureReasonNonRetryable
    ELSE ""

\* the terminal conditions of the loop body, in the order execute tests them:
\* the outcome failure reason of the break taken, "" when the loop goes on
terminalReason(ao, p, count) ==
    IF ~ao.retryable THEN OutcomeFailureReasonNonRetryable
    ELSE IF count >= p.maxAttempts THEN OutcomeFailureReasonExhausted
    ELSE ""

\* from the return of safeExecute to the next suspension point: the rest of
\* executeAttempt (with its deferred attemptCancel), RecordAttempt, and the
\* loop body of execute down to the creation of the backoff timer
AttemptDone(attemptResult, attemptErr) ==
    LET ao == executeAttempt(policy, attemptCount, attemptResult, attemptErr)
        evts == RecordAttempt(events, ao.attempt)
        reason == terminalReason(ao, policy, attemptCount)
    IN  /\ last' = [set |-> TRUE, v |-> attemptResult, e |-> attemptErr]
        /\ attemptCtxErr' = IF attemptCtxErr = Nil THEN Canceled ELSE attemptCtxErr
        /\ IF ao.success
           THEN /\ Return(evts, successOutcome(outcome), ao.result, FALSE)
                /\ UNCHANGED <<retryErr, attemptCount, timerFired, waits>>
           ELSE /\ retryErr' = [retryErr EXCEPT
                                  !.Attempts = Append(retryErr.Attempts, ao.attempt)]
                /\ IF reason # ""
                   THEN /\ Return(evts, [outcome EXCEPT !.FailureReason = reason],
                                  "zero", TRUE)
                        /\ UNCHANGED <<attemptCount, timerFired, waits>>
                   ELSE /\ events' = evts
                        /\ timerFired' = FALSE
                        /\ waits' = waits + 1
                        /\ pc' = "waitEnter"
                        /\ UNCHANGED <<attemptCount, outcome, ret>>

\* faulty variant: no look at the context before the user function is invoked
SafeExecuteNoPrecheck ==
    /\ pc = "safeExecute"
    /\ pc' = "inFn"
    /\ fnCalls' = fnCalls + 1
    /\ UNCHANGED <<policy, ctxErr, attemptCtxErr, attemptCount, retryErr, outcome,
                   timerFired, events, ret, waits, skips, last, cancelAt>>
    /\ UNCHANGED <<constructionVars, breakerVars, libraryVars>>

\* safeExecute: a context that is already done is the attempt's error and the
\* user function is not invoked; otherwise the user function starts
SafeExecute ==
    /\ pc = "safeExecute"
    /\ IF attemptCtxErr # Nil
       THEN /\ AttemptDone("zero", attemptCtxErr)
            /\ skips' = skips + 1
            /\ UNCHANGED <<policy, ctxErr, fnCalls, cancelAt>>
       ELSE /\ pc' = "inFn"
            /\ fnCalls' = fnCalls + 1
            /\ UNCHANGED <<policy, ctxErr, attemptCtxErr, attemptCount, retryErr,
                           outcome, timerFired, events, ret, waits, skips, last, cancelAt>>
    /\ UNCHANGED <<constructionVars, breakerVars, libraryVars>>

\* the user function returns
FnReturn(r) ==
    /\ pc = "inFn"
    /\ AttemptDone(r.v, r.e)
    /\ UNCHANGED <<policy, ctxErr, fnCalls, skips, cancelAt>>
    /\ UNCHANGED <<constructionVars, breakerVars, libraryVars>>

\* contextWaiter reaches its select: a ready case is taken (either one when
\* both are ready), otherwise the waiter blocks
SelectEnter ==
    /\ pc = "waitEnter"
    /\ \/ ctxErr # Nil /\ pc' = "wokenDone"
       \/ timerFired /\ pc' = "wokenTimer"
       \/ ctxErr = Nil /\ ~timerFired /\ pc' = "waitBlocked"
    /\ UNCHANGED <<policy, ctxErr, attemptCtxErr, attemptCount, retryErr, outcome,
                   timerFired, events, ret, fnCalls, waits, skips, last, cancelAt>>
    /\ UNCHANGED <<constructionVars, breakerVars, libraryVars>>

\* faulty variant: RecordOutcome is not deferred and the return out of the
\* canceled wait misses it
WaitCanceledNoOutcome ==
    /\ pc = "wokenDone"
    /\ retryErr' = [retryErr EXCEPT !.TerminationError = ctxErr]
    /\ outcome' = [outcome EXCEPT !.FailureReason = classifyContextError(ctxErr)]
    /\ ret' = [returned |-> TRUE, value |-> "zero", isRetryErr |-> TRUE]
    /\ pc' = "done"
    /\ UNCHANGED <<policy, ctxErr, attemptCtxErr, attemptCount, timerFired, events,
                   fnCalls, waits, skips, last, cancelAt>>
    /\ UNCHANGED <<constructionVars, breakerVars, libraryVars>>

\* faulty variant: the backoff is reported before the outcome of the wait is known
WaitCanceledRecordsBackoff ==
    /\ pc = "wokenDone"
    /\ retryErr' = [retryErr EXCEPT !.TerminationError = ctxErr]
    /\ Return(RecordBackoff(events, attemptCount + 1,
                            BackoffNext(policy.backoff, attemptCount)),
              [outcome EXCEPT !.FailureReason = classifyContextError(ctxErr)],
              "zero", TRUE)
    /\ UNCHANGED <<policy, ctxErr, attemptCtxErr, attemptCount, timerFired, fnCalls,
                   waits, skips, last, cancelAt>>
    /\ UNCHANGED <<constructionVars, breakerVars, libraryVars>>

\* faulty variant: the termination error is not stored
WaitCanceledNoTermination ==
    /\ pc = "wokenDone"
    /\ Return(events, [outcome EXCEPT !.FailureReason = classifyContextError(ctxErr)],
              "zero", TRUE)
    /\ UNCHANGED <<policy, ctxErr, attemptCtxErr, attemptCount, retryErr, timerFired,
                   fnCalls, waits, skips, last, cancelAt>>
    /\ UNCHANGED <<constructionVars, breakerVars, libraryVars>>

\* faulty variant: the error of the wait is dropped and the loop goes on
WaitCanceledContinues ==
    /\ pc = "wokenDone"
    /\ attemptCount' = attemptCount + 1
    /\ events' = RecordBackoff(events, attemptCount + 1,
                               BackoffNext(policy.backoff, attemptCount))
    /\ pc' = "attempt"
    /\ UNCHANGED <<policy, ctxErr, attemptCtxErr, retryErr, outcome, timerFired,
                   ret, fnCalls, waits, skips, last, cancelAt>>
    /\ UNCHANGED <<constructionVars, breakerVars, libraryVars>>

\* faulty variant: the interrupted wait advances attemptCount
WaitCanceledCountsAttempt ==
    /\ pc = "wokenDone"
    /\ retryErr' = [retryErr EXCEPT !.TerminationError = ctxErr]
    /\ attemptCount' = attemptCount + 1
    /\ outcome' = [outcome EXCEPT !.FailureReason = classifyContextError(ctxErr)]
    /\ events' = RecordOutcome(events, outcome', attemptCount')
    /\ ret' = [returned |-> TRUE, value |-> "zero", isRetryErr |-> TRUE]
    /\ pc' = "done"
    /\ UNCHANGED <<policy, ctxErr, attemptCtxErr, timerFired, fnCalls, waits, skips,
                   last, cancelAt>>
    /\ UNCHANGED <<constructionVars, breakerVars, libraryVars>>

\* wait returned ctx.Err(): termination error, outcome reason, return
WaitCanceled ==
    /\ pc = "wokenDone"
    /\ retryErr' = [retryErr EXCEPT !.TerminationError = ctxErr]
    /\ Return(events, [outcome EXCEPT !.FailureReason = classifyContextError(ctxErr)],
              "zero", TRUE)
    /\ UNCHANGED <<policy, ctxErr, attemptCtxErr, attemptCount, timerFired, fnCalls,
                   waits, skips, last, cancelAt>>
    /\ UNCHANGED <<constructionVars, breakerVars, libraryVars>>

\* faulty variant: the elapsed wait is not reported
WaitElapsedNoRecord ==
    /\ pc = "wokenTimer"
    /\ attemptCount' = attemptCount + 1
    /\ pc' = "attempt"
    /\ UNCHANGED <<policy, ctxErr, attemptCtxErr, retryErr, outcome, timerFired,
                   events, ret, fnCalls, waits, skips, last, cancelAt>>
    /\ UNCHANGED <<constructionVars, breakerVars, libraryVars>>

\* wait returned nil: attemptCount++, RecordBackoff, next iteration
WaitElapsed ==
    /\ pc = "wokenTimer"
    /\ attemptCount' = attemptCount + 1
    /\ events' = RecordBackoff(events, attemptCount + 1,
                               BackoffNext(policy.backoff, attemptCount))
    /\ pc' = "attempt"
    /\ UNCHANGED <<policy, ctxErr, attemptCtxErr, retryErr, outcome, timerFired,
                   ret, fnCalls, waits, skips, last, cancelAt>>
    /\ UNCHANGED <<constructionVars, breakerVars, libraryVars>>

Next ==
    \/ \E e \in {Canceled, DeadlineExceeded} : CancelParent(e)
    \/ DeadlineFire
    \/ TimerFire
    \/ Execute
    \/ AttemptScope
    \/ SafeExecute
    \/ \E r \in FnReturns : FnReturn(r)
    \/ SelectEnter
    \/ WaitCanceled
    \/ WaitElapsed

Spec == Init /\ [][Next]_vars

(***************************************************************************)
(* Type invariant.                                                         *)
(***************************************************************************)
TypeOK ==
    /\ policy \in Policies
    /\ ctxErr \in {Nil, Canceled, DeadlineExceeded}
    /\ attemptCtxErr \in {NoCtx, Nil, Canceled, DeadlineExceeded}
    /\ pc \in {"idle", "attempt", "safeExecute", "inFn", "waitEnter", "waitBlocked",
               "wokenDone", "wokenTimer", "done"}
    /\ attemptCount \in 0..MaxAttemptsBound
    /\ timerFired \in BOOLEAN
    /\ fnCalls \in 0..MaxAttemptsBound
    /\ waits \in 0..MaxAttemptsBound
    /\ skips \in 0..MaxAttemptsBound
    /\ last \in [set : BOOLEAN, v : {"zero", "good", "bad"},
                 e : {Nil, E1, E2, WrapE1, Canceled, DeadlineExceeded}]

(***************************************************************************)
(* Reading the telemetry.                                                  *)
(***************************************************************************)
IndicesOf(kind) == { i \in 1..Len(events) : events[i].kind = kind }

CountOf(kind) == Cardinality(IndicesOf(kind))

Returned == pc = "done"

LastAttempt == retryErr.Attempts[Len(retryErr.Attempts)]

(***************************************************************************)
(* C1.  The user function is attempted at most policy.maxAttempts times,   *)
(* RetryError.Attempts never holds more than maxAttempts attempts, and the *)
(* attempts carry the numbers 1..N in order, whatever the function         *)
(* returns.                                                                *)
(***************************************************************************)
C1_AttemptsBounded ==
    /\ fnCalls <= policy.maxAttempts
    /\ fnCalls + skips <= policy.maxAttempts
    /\ CountOf("attempt") <= policy.maxAttempts
    /\ Len(retryErr.Attempts) <= policy.maxAttempts
    /\ \A i \in 1..Len(retryErr.Attempts) : retryErr.Attempts[i].Number = i

C1_Witness ==
    /\ Returned
    /\ ret.isRetryErr
    /\ policy.maxAttempts = MaxAttemptsBound
    /\ Len(retryErr.Attempts) = policy.maxAttempts
    /\ fnCalls = policy.maxAttempts

(***************************************************************************)
(* C2.  Every Execute call emits exactly one Outcome record, on every exit *)
(* path (success, non-retryable, exhausted, canceled wait), none before it *)
(* returns, and the Outcome record follows the last attempt record.        *)
(***************************************************************************)
C2_OneOutcome ==
    /\ ~Returned => CountOf("outcome") = 0
    /\ Returned =>
         /\ CountOf("outcome") = 1
         /\ events[Len(events)].kind = "outcome"
         /\ CountOf("attempt") >= 1
         /\ \A i \in IndicesOf("attempt") : i < Len(events)

\* the exit through the canceled wait, after more than one attempt
C2_Witness ==
    /\ Returned
    /\ retryErr.TerminationError # Nil
    /\ Len(retryErr.Attempts) >= 2
    /\ CountOf("outcome") = 1

LastEvent == events[Len(events)]

\* the most recent attempt record handed to the reporter
LastAttemptEvent ==
    events[CHOOSE i \in IndicesOf("attempt") : \A j \in IndicesOf("attempt") : j <= i]

(***************************************************************************)
(* C4.  Exhaustion: when every attempt fails with a retryable failure and  *)
(* the parent context is never canceled, Execute makes maxAttempts         *)
(* attempts and returns a RetryError with maxAttempts attempts and no      *)
(* TerminationError, the Outcome says exhausted, and there is no backoff   *)
(* wait after the final attempt.                                           *)
(***************************************************************************)
C4_AllRetryableNoCancel ==
    /\ Returned
    /\ cancelAt = NotCanceled
    /\ ret.isRetryErr
    /\ \A i \in 1..Len(retryErr.Attempts) : retryErr.Attempts[i].Retryable

C4_Exhausted ==
    /\ Len(retryErr.Attempts) = policy.maxAttempts
    /\ CountOf("attempt") = policy.maxAttempts
    /\ retryErr.TerminationError = Nil
    /\ LastEvent.FailureReason = OutcomeFailureReasonExhausted
    /\ LastEvent.Status = OutcomeStatusError
    /\ LastEvent.TotalAttempts = policy.maxAttempts
    /\ waits = policy.maxAttempts - 1
    /\ CountOf("backoff") = policy.maxAttempts - 1

C5_NonRetryableEnds ==
    \A i \in 1..Len(retryErr.Attempts) :
        LET a == retryErr.Attempts[i]
        IN  (a.FailureReason # AttemptFailureReasonResult
               /\ ~ShouldRetryError(policy, a.Error)) =>
                /\ ~a.Retryable
                /\ i = Len(retryErr.Attempts)
                /\ attemptCount = i
                /\ waits = i - 1
                /\ CountOf("backoff") = i - 1
                /\ Returned
                /\ ret.isRetryErr
                /\ retryErr.TerminationError = Nil
                /\ LastEvent.kind = "outcome"
                /\ LastEvent.FailureReason = OutcomeFailureReasonNonRetryable
                /\ events[Len(events) - 1].kind = "attempt"
                /\ events[Len(events) - 1].Number = i
                /\ ~events[Len(events) - 1].Retryable

C5_Witness ==
    /\ Returned
    /\ policy.maxAttempts >= 2
    /\ Len(retryErr.Attempts) = policy.maxAttempts
    /\ ~LastAttempt.Retryable
    /\ LastEvent.FailureReason = OutcomeFailureReasonNonRetryable

(***************************************************************************)
(* C6.  An attempt that returns no error and a value the result predicate  *)
(* (if any) does not select ends the sequence with success: Execute        *)
(* returns that value and a nil error, the attempt record and the Outcome  *)
(* say success, nothing follows, and earlier failed attempts are not       *)
(* returned.                                                               *)
(***************************************************************************)
C6_AttemptSucceeded ==
    /\ last.set
    /\ last.e = Nil
    /\ ~(policy.retryOnResultPredicate /\ ResultPredicate(last.v))

C6_Success ==
    C6_AttemptSucceeded =>
        /\ Returned
        /\ ret = [returned |-> TRUE, value |-> last.v, isRetryErr |-> FALSE]
        /\ retryErr.TerminationError = Nil
        /\ Len(events) >= 2
        /\ LastEvent.kind = "outcome"
        /\ LastEvent.Status = OutcomeStatusSuccess
        /\ LastEvent.FailureReason = ""
        /\ LastEvent.TotalAttempts = CountOf("attempt")
        /\ events[Len(events) - 1].kind = "attempt"
        /\ events[Len(events) - 1].Status = AttemptStatusSuccess
        /\ events[Len(events) - 1].Number = attemptCount
        /\ events[Len(events) - 1].Error = Nil
        /\ CountOf("backoff") = attemptCount - 1
        /\ waits = attemptCount - 1

C6_Witness ==
    /\ C6_AttemptSucceeded
    /\ Returned
    /\ Len(retryErr.Attempts) = 2
    /\ ret.value = "good"

(***************************************************************************)
(* C7.  An attempt that returns no error but a value the result predicate  *)
(* selects is a failed attempt with Error = ErrResultPredicateRetry,       *)
(* FailureReason = result and Retryable = true, whatever the error         *)
(* predicate and the error lists say; as the last allowed attempt it ends  *)
(* the sequence exhausted, the sentinel being the last attempt's error.    *)
(***************************************************************************)
C7_PredicateSelected ==
    /\ last.set
    /\ last.e = Nil
    /\ policy.retryOnResultPredicate
    /\ ResultPredicate(last.v)

C7_ResultRetry ==
    C7_PredicateSelected =>
        /\ Len(retryErr.Attempts) >= 1
        /\ LastAttempt.Status = AttemptStatusError
        /\ LastAttempt.Error = ErrResultPredicateRetry
        /\ LastAttempt.FailureReason = AttemptFailureReasonResult
        /\ LastAttempt.Retryable
        /\ LastAttemptEvent = [kind |-> "attempt", Number |-> LastAttempt.Number,
                               Status |-> AttemptStatusError,
                               FailureReason |-> AttemptFailureReasonResult,
                               Error |-> ErrResultPredicateRetry, Retryable |-> TRUE]
        /\ outcome.FailureReason # OutcomeFailureReasonNonRetryable
        /\ LastAttempt.Number = policy.maxAttempts =>
             /\ Returned
             /\ ret.isRetryErr
             /\ retryErr.TerminationError = Nil
             /\ LastEvent.kind = "outcome"
             /\ LastEvent.FailureReason = OutcomeFailureReasonExhausted
        /\ LastAttempt.Number < policy.maxAttempts =>
             outcome.FailureReason # OutcomeFailureReasonExhausted

C7_Witness ==
    /\ C7_PredicateSelected
    /\ ~ShouldRetryError(policy, ErrResultPredicateRetry)
    /\ policy.maxAttempts >= 2
    /\ LastAttempt.Number = policy.maxAttempts
    /\ Returned

(***************************************************************************)
(* C8.  When the parent context is canceled while Execute waits for the    *)
(* backoff (its waiter is blocked in the select), Execute returns a        *)
(* RetryError whose TerminationError is the context's error and whose      *)
(* Attempts are those made so far; no further attempt starts, no backoff   *)
(* record is emitted for the interrupted wait, and the Outcome says        *)
(* timeout for DeadlineExceeded and canceled otherwise.                    *)
(***************************************************************************)
C8_CanceledInWait == cancelAt.pc = "waitBlocked"

\* the waiter returned, or is about to return, the context's error
C8_WaitObservedCancel ==
    pc = "wokenDone" \/ (Returned /\ retryErr.TerminationError # Nil)

C9_CanceledMidSequence == Returned /\ cancelAt.pc \in {"inFn", "waitBlocked"}

C9_Original ==
    C9_CanceledMidSequence =>
        /\ ret.isRetryErr
        /\ Len(retryErr.Attempts) >= 1
        /\ retryErr.TerminationError = ctxErr

\* as amended: a cancellation during a backoff wait ends the call that way; a
\* cancellation during an attempt reaches only the user function, and the call
\* ends with success, non_retryable or exhausted (no TerminationError) unless a
\* later backoff wait observes it
C9_Cancellation ==
    C9_CanceledMidSequence =>
        /\ ret.isRetryErr => Len(retryErr.Attempts) >= 1
        /\ cancelAt.pc = "waitBlocked" =>
             ret.isRetryErr /\ retryErr.TerminationError = ctxErr
        /\ cancelAt.pc = "inFn" =>
             \/ /\ ~ret.isRetryErr
                /\ C6_AttemptSucceeded
                /\ retryErr.TerminationError = Nil
                /\ LastEvent.Status = OutcomeStatusSuccess
             \/ /\ ret.isRetryErr
                /\ retryErr.TerminationError = Nil
                /\ LastEvent.FailureReason = OutcomeFailureReasonNonRetryable
                /\ ~LastAttempt.Retryable
             \/ /\ ret.isRetryErr
                /\ retryErr.TerminationError = Nil
                /\ LastEvent.FailureReason = OutcomeFailureReasonExhausted
                /\ LastAttempt.Retryable
                /\ LastAttempt.Number = policy.maxAttempts
             \/ /\ ret.isRetryErr
                /\ retryErr.TerminationError = ctxErr
                /\ LastEvent.FailureReason = classifyContextError(ctxErr)
                /\ LastAttempt.Retryable
                /\ LastAttempt.Number < policy.maxAttempts

C9_Witness ==
    /\ C9_CanceledMidSequence
    /\ cancelAt.pc = "inFn"
    /\ cancelAt.attempt = policy.maxAttempts
    /\ ret.isRetryErr
    /\ retryErr.TerminationError = Nil
    /\ LastAttempt.Error = Canceled
    /\ LastEvent.FailureReason = OutcomeFailureReasonExhausted

(***************************************************************************)
(* C10.  When the parent context is already canceled at the call of        *)
(* Execute, the user function is never invoked, in any attempt, and        *)
(* attempt 1 is recorded as failed with the context's error as its Error   *)
(* and FailureReason canceled (timeout for DeadlineExceeded).              *)
(***************************************************************************)
C10_CanceledBeforeCall == cancelAt.pc = "idle"

C10_NoInvocation ==
    C10_CanceledBeforeCall =>
        /\ fnCalls = 0
        /\ skips = CountOf("attempt")
        /\ \A i \in IndicesOf("attempt") :
             /\ events[i].Status = AttemptStatusError
             /\ events[i].Error = ctxErr
        /\ (attemptCount > 1 \/ pc \notin {"idle", "attempt", "safeExecute"}) =>
             /\ events[1] = [kind |-> "attempt", Number |-> 1,
                             Status |-> AttemptStatusError,
                             FailureReason |->
                                 IF ctxErr = DeadlineExceeded
                                 THEN AttemptFailureReasonTimeout
                                 ELSE AttemptFailureReasonCanceled,
                             Error |-> ctxErr,
                             Retryable |-> ShouldRetryError(policy, ctxErr)]
             /\ retryErr.Attempts[1].Error = ctxErr
             /\ retryErr.Attempts[1].Number = 1
        /\ Returned => ret.isRetryErr

C10_Witness ==
    /\ C10_CanceledBeforeCall
    /\ Returned
    /\ ctxErr = DeadlineExceeded
    /\ retryErr.Attempts[1].FailureReason = AttemptFailureReasonTimeout
    /\ Len(retryErr.Attempts) = 2

(***************************************************************************)
(* Policy construction (retry/policy.go): NewPolicy applies the options in *)
(* order to a policy holding the defaults and validates the outcome;       *)
(* NewCircuitAwarePolicy puts its own WithIgnoreErrors option in front.    *)
(* An option is the pair of its constructor's name and the argument given. *)
(***************************************************************************)
\* largest number of options handed to a constructor
MaxOptions == 3

\* circuitbreaker.ErrOpenState
ErrOpenState == <<"ErrOpenState">>

\* circuitbreaker.ErrHalfOpenState
ErrHalfOpenState == <<"ErrHalfOpenState">>

\* &ValidationError{Field: field}
ValidationError(field) ==
    IF field = "maxAttempts" THEN <<"ValidationError(maxAttempts)">>
    ELSE <<"ValidationError(backoff)">>

\* IsValidationError: errors.As(err, *ValidationError)
IsValidationError(err) ==
    \E i \in 1..Len(err) :
        err[i] \in {"ValidationError(maxAttempts)", "ValidationError(backoff)"}

\* a nil backoff.Backoff
NilBackoff == [kind |-> "nil", interval |-> 0]

\* a nil func(error) bool
NilPredicate == [set |-> FALSE, accepts |-> {}]

\* a nil *Policy
NilPolicy == [nil |-> TRUE]

\* maxAttempts of the policy NewPolicy starts from
DefaultMaxAttempts == 3

\* interval, in milliseconds, of the Linear backoff NewPolicy starts from
DefaultInterval == 100

\* the policy NewPolicy starts from; the fields it does not name are zero
DefaultPolicy ==
    [maxAttempts |-> DefaultMaxAttempts, attemptTimeout |-> 0,
     backoff |-> [kind |-> "linear", interval |-> DefaultInterval],
     retryOnResultPredicate |-> FALSE,
     retryOnErrorPredicate |-> NilPredicate,
     retryErrors |-> <<>>, ignoreErrors |-> <<>>]

WithMaxAttempts(p, attempts) == [p EXCEPT !.maxAttempts = attempts]

WithAttemptTimeout(p, timeout) == [p EXCEPT !.attemptTimeout = timeout]

WithBackoff(p, f) == [p EXCEPT !.backoff = f]

WithRetryOnResultPredicate(p, predicate) == [p EXCEPT !.retryOnResultPredicate = predicate]

WithRetryOnErrorPredicate(p, predicate) == [p EXCEPT !.retryOnErrorPredicate = predicate]

\* p.retryErrors = errors
WithRetryErrors(p, errors) == [p EXCEPT !.retryErrors = errors]

\* p.ignoreErrors = errors
WithIgnoreErrors(p, errors) == [p EXCEPT !.ignoreErrors = errors]

\* option(policy)
applyOption(p, o) ==
    CASE o[1] = "WithMaxAttempts" -> WithMaxAttempts(p, o[2])
      [] o[1] = "WithAttemptTimeout" -> WithAttemptTimeout(p, o[2])
      [] o[1] = "WithBackoff" -> WithBackoff(p, o[2])
      [] o[1] = "WithRetryOnResultPredicate" -> WithRetryOnResultPredicate(p, o[2])
      [] o[1] = "WithRetryOnErrorPredicate" -> WithRetryOnErrorPredicate(p, o[2])
      [] o[1] = "WithRetryErrors" -> WithRetryErrors(p, o[2])
      [] o[1] = "WithIgnoreErrors" -> WithIgnoreErrors(p, o[2])

\* for _, option := range options { option(policy) }
RECURSIVE applyOptions(_, _)
applyOptions(p, opts) ==
    IF opts = <<>> THEN p
    ELSE applyOptions(applyOption(p, Head(opts)), Tail(opts))

\* faulty variant: a nil backoff passes validation
ValidateMaxAttemptsOnly(p) ==
    IF p.maxAttempts < 1 THEN ValidationError("maxAttempts") ELSE Nil

\* Policy.Validate
Validate(p) ==
    IF p.maxAttempts < 1 THEN ValidationError("maxAttempts")
    ELSE IF p.backoff = NilBackoff THEN ValidationError("backoff")
    ELSE Nil

\* NewPolicy(name, options...)
NewPolicy(opts) ==
    LET p == applyOptions(DefaultPolicy, opts)
        err == Validate(p)
    IN  IF err # Nil THEN [built |-> TRUE, policy |-> NilPolicy, err |-> err]
        ELSE [built |-> TRUE, policy |-> p, err |-> Nil]

\* NewCircuitAwarePolicy(name, opts...)
NewCircuitAwarePolicy(opts) ==
    NewPolicy(<< <<"WithIgnoreErrors", <<ErrOpenState, ErrHalfOpenState>> >> >> \o opts)

\* the options explored
Options ==
    {<<"WithMaxAttempts", n>> : n \in {0, 2}}
    \cup {<<"WithAttemptTimeout", 1>>}
    \cup {<<"WithBackoff", b>> :
            b \in {NilBackoff, [kind |-> "fixed", interval |-> 0]}}
    \cup {<<"WithRetryOnResultPredicate", TRUE>>}
    \cup {<<"WithRetryOnErrorPredicate",
             [set |-> TRUE, accepts |-> {E2, ErrOpenState}]>>}
    \cup {<<"WithRetryErrors", <<e>> >> : e \in {E1, E2}}
    \cup {<<"WithIgnoreErrors", <<e>> >> : e \in {E1, E2}}

OptionLists == UNION {[1..n -> Options] : n \in 0..MaxOptions}

\* the errors ShouldRetryError is asked about
AskedErrors == {Nil, E1, E2, WrapE1, ErrOpenState, ErrHalfOpenState, Canceled}

\* no Execute call takes part
NoExecute ==
    /\ policy = NilPolicy
    /\ ctxErr = Nil
    /\ ExecuteInit

PolicyInit ==
    /\ ctor \in {"NewPolicy", "NewCircuitAwarePolicy"}
    /\ options \in OptionLists
    /\ newRet = NotConstructed
    /\ asked = NotAsked
    /\ NoExecute
    /\ BreakerIdle
    /\ LibraryIdle

\* the constructor is called with the options and returns
Construct ==
    /\ ~newRet.built
    /\ newRet' = IF ctor = "NewPolicy" THEN NewPolicy(options)
                 ELSE NewCircuitAwarePolicy(options)
    /\ UNCHANGED <<ctor, options, asked, vars, breakerVars, libraryVars>>

\* policy.ShouldRetryError(err) on the policy the constructor returned
AskShouldRetryError(err) ==
    /\ newRet.built
    /\ newRet.policy # NilPolicy
    /\ asked' = [set |-> TRUE, err |-> err,
                 answer |-> ShouldRetryError(newRet.policy, err)]
    /\ UNCHANGED <<ctor, options, newRet, vars, breakerVars, libraryVars>>

PolicyNext ==
    \/ Construct
    \/ \E err \in AskedErrors : AskShouldRetryError(err)

PolicySpec == PolicyInit /\ [][PolicyNext]_allVars

\* the options the constructor applies, its own first
AppliedOptions ==
    IF ctor = "NewCircuitAwarePolicy"
    THEN << <<"WithIgnoreErrors", <<ErrOpenState, ErrHalfOpenState>> >> >> \o options
    ELSE options

\* the argument of the last applied option of that name, or the default
RECURSIVE LastValue(_, _, _)
LastValue(opts, name, default) ==
    IF opts = <<>> THEN default
    ELSE IF opts[Len(opts)][1] = name THEN opts[Len(opts)][2]
    ELSE LastValue(SubSeq(opts, 1, Len(opts) - 1), name, default)

\* the errors given to the applied options of that name, taken together
ErrorsGiven(name) ==
    UNION {{AppliedOptions[i][2][j] : j \in 1..Len(AppliedOptions[i][2])} :
             i \in {k \in 1..Len(AppliedOptions) : AppliedOptions[k][1] = name}}

Held(list) == {list[i] : i \in 1..Len(list)}

(***************************************************************************)
(* C11.  ShouldRetryError(err) is false for a nil err; otherwise it is the *)
(* value of retryOnErrorPredicate when one is set, the lists not being     *)
(* consulted; otherwise false when err matches an ignoreErrors entry, even *)
(* if it matches a retryErrors entry too; otherwise, with a non-empty      *)
(* retryErrors, true iff err matches one of its entries; otherwise true.   *)
(***************************************************************************)
C11_DecisionOrder ==
    asked.set =>
        LET p == newRet.policy
            err == asked.err
            predicate == p.retryOnErrorPredicate
            ignored == \E i \in 1..Len(p.ignoreErrors) : Is(err, p.ignoreErrors[i])
            listed == \E i \in 1..Len(p.retryErrors) : Is(err, p.retryErrors[i])
        IN  /\ err = Nil => ~asked.answer
            /\ err # Nil /\ predicate.set =>
                 asked.answer = (err \in predicate.accepts)
            /\ err # Nil /\ ~predicate.set /\ ignored => ~asked.answer
            /\ err # Nil /\ ~predicate.set /\ ~ignored /\ p.retryErrors # <<>> =>
                 asked.answer = listed
            /\ err # Nil /\ ~predicate.set /\ ~ignored /\ p.retryErrors = <<>> =>
                 asked.answer

\* an error on both lists is not retried
C11_Witness ==
    /\ asked.set
    /\ asked.err = E1
    /\ ~asked.answer
    /\ ~newRet.policy.retryOnErrorPredicate.set
    /\ newRet.policy.retryErrors = <<E1>>
    /\ newRet.policy.ignoreErrors = <<E1>>

(***************************************************************************)
(* C13.  Several WithIgnoreErrors options (likewise WithRetryErrors) given *)
(* to one constructor accumulate: the policy's list holds the errors of    *)
(* all of them.                                                            *)
(***************************************************************************)
C13_Original ==
    newRet.built /\ newRet.policy # NilPolicy /\ ctor = "NewPolicy" =>
        /\ ErrorsGiven("WithIgnoreErrors") \subseteq Held(newRet.policy.ignoreErrors)
        /\ ErrorsGiven("WithRetryErrors") \subseteq Held(newRet.policy.retryErrors)

(***************************************************************************)
(* C14.  The constructor returns a ValidationError and no policy exactly   *)
(* when the options leave maxAttempts below 1 or the backoff nil, and      *)
(* otherwise a policy and no error; a returned policy has maxAttempts >= 1 *)
(* and a backoff, which without options are 3 and Linear(100ms).           *)
(***************************************************************************)
C14_Validation ==
    newRet.built =>
        LET invalid ==
              \/ LastValue(options, "WithMaxAttempts", DefaultMaxAttempts) < 1
              \/ LastValue(options, "WithBackoff", DefaultPolicy.backoff) = NilBackoff
        IN  /\ invalid => IsValidationError(newRet.err) /\ newRet.policy = NilPolicy
            /\ ~invalid => newRet.err = Nil /\ newRet.policy # NilPolicy
            /\ newRet.policy # NilPolicy =>
                 /\ newRet.policy.maxAttempts >= 1
                 /\ newRet.policy.backoff # NilBackoff
            /\ options = <<>> /\ newRet.policy # NilPolicy =>
                 /\ newRet.policy.maxAttempts = 3
                 /\ newRet.policy.backoff = [kind |-> "linear", interval |-> 100]

\* a nil backoff alone, with a valid maxAttempts, is refused
C14_Witness ==
    /\ newRet.built
    /\ newRet.err = ValidationError("backoff")
    /\ newRet.policy = NilPolicy
    /\ LastValue(options, "WithMaxAttempts", DefaultMaxAttempts) = 2

(***************************************************************************)
(* RetryError (retry errors): what errors.Is and errors.As see of the      *)
(* error Execute returns.                                                  *)
(***************************************************************************)
\* faulty variant: the last attempt's error comes before the termination error
UnwrapLastAttemptFirst(re) ==
    IF Len(re.Attempts) > 0 THEN re.Attempts[Len(re.Attempts)].Error
    ELSE re.TerminationError

\* RetryError.Unwrap
Unwrap(re) ==
    IF re.TerminationError # Nil THEN re.TerminationError
    ELSE IF Len(re.Attempts) = 0 THEN Nil
    ELSE re.Attempts[Len(re.Attempts)].Error

\* the unwrap chain of a *RetryError: the error itself, then what Unwrap yields
RetryErrorChain(re) == <<"RetryError">> \o Unwrap(re)

\* AsRetryError: errors.As(err, **RetryError)
AsRetryError(err) == \E i \in 1..Len(err) : err[i] = "RetryError"

(***************************************************************************)
(* C15.  Unwrap yields the termination error when one is set, otherwise    *)
(* the last attempt's error, otherwise nil; errors.Is on the RetryError    *)
(* matches the termination error and, a termination error being set,       *)
(* matches no attempt's error; AsRetryError succeeds iff the chain of the  *)
(* error reaches a RetryError.                                             *)
(*                                                                         *)
(* C15_Original is the statement as made.  C15_Unwrap is what holds: with  *)
(* a termination error set, errors.Is matches an attempt's error only when *)
(* the termination error's own chain holds that error, as it does when an  *)
(* attempt failed with the context error that later ended the wait.        *)
(***************************************************************************)
C15_UnwrapOrder ==
    /\ retryErr.TerminationError # Nil =>
         Unwrap(retryErr) = retryErr.TerminationError
    /\ retryErr.TerminationError = Nil /\ retryErr.Attempts # <<>> =>
         Unwrap(retryErr) = LastAttempt.Error
    /\ retryErr.TerminationError = Nil /\ retryErr.Attempts = <<>> =>
         Unwrap(retryErr) = Nil

C15_AsRetryError ==
    /\ AsRetryError(RetryErrorChain(retryErr))
    /\ AsRetryError(<<"wrap">> \o RetryErrorChain(retryErr))
    /\ ~AsRetryError(Unwrap(retryErr))
    /\ ~AsRetryError(Nil)
    /\ \A i \in 1..Len(retryErr.Attempts) : ~AsRetryError(retryErr.Attempts[i].Error)

C15_Original ==
    /\ C15_UnwrapOrder
    /\ C15_AsRetryError
    /\ retryErr.TerminationError # Nil =>
         /\ Is(RetryErrorChain(retryErr), retryErr.TerminationError)
         /\ \A i \in 1..Len(retryErr.Attempts) :
              ~Is(RetryErrorChain(retryErr), retryErr.Attempts[i].Error)

C15_Unwrap ==
    /\ C15_UnwrapOrder
    /\ C15_AsRetryError
    /\ retryErr.TerminationError # Nil =>
         /\ Is(RetryErrorChain(retryErr), retryErr.TerminationError)
         /\ \A i \in 1..Len(retryErr.Attempts) :
              Is(RetryErrorChain(retryErr), retryErr.Attempts[i].Error)
                <=> Is(retryErr.TerminationError, retryErr.Attempts[i].Error)
    /\ retryErr.TerminationError = Nil /\ retryErr.Attempts # <<>> =>
         Is(RetryErrorChain(retryErr), LastAttempt.Error)

\* a wait canceled after an attempt that failed with another error
C15_Witness ==
    /\ Returned
    /\ retryErr.TerminationError = Canceled
    /\ LastAttempt.Error = WrapE1
    /\ Unwrap(retryErr) = Canceled
    /\ ~Is(RetryErrorChain(retryErr), E1)

(***************************************************************************)
(* The count window (circuitbreaker.CountWindow): a ring of outcomes with  *)
(* running counters.  ring is the buffer, an empty slot holding "nil", and *)
(* at the slot the ring pointer stands on.                                 *)
(***************************************************************************)
\* capacity of the breaker's window
WindowCapacity == 2

OutcomeSuccess == "Success"

OutcomeFailure == "Failure"

OutcomeSlowSuccess == "SlowSuccess"

OutcomeSlowFailure == "SlowFailure"

NewCountWindow(size) ==
    [ring |-> [i \in 1..size |-> "nil"], at |-> 1,
     successCount |-> 0, failureCount |-> 0, slowCallCount |-> 0]

\* faulty variant: an evicted slow outcome stays in the slow counter
decrementOutcomeKeepsSlow(w, o) ==
    CASE o \in {OutcomeSuccess, OutcomeSlowSuccess} -> [w EXCEPT !.successCount = @ - 1]
      [] o \in {OutcomeFailure, OutcomeSlowFailure} -> [w EXCEPT !.failureCount = @ - 1]

\* CountWindow.decrementOutcome
decrementOutcome(w, o) ==
    CASE o = OutcomeSuccess -> [w EXCEPT !.successCount = @ - 1]
      [] o = OutcomeFailure -> [w EXCEPT !.failureCount = @ - 1]
      [] o = OutcomeSlowSuccess ->
           [w EXCEPT !.successCount = @ - 1, !.slowCallCount = @ - 1]
      [] o = OutcomeSlowFailure ->
           [w EXCEPT !.failureCount = @ - 1, !.slowCallCount = @ - 1]

\* CountWindow.incrementOutcome
incrementOutcome(w, o) ==
    CASE o = OutcomeSuccess -> [w EXCEPT !.successCount = @ + 1]
      [] o = OutcomeFailure -> [w EXCEPT !.failureCount = @ + 1]
      [] o = OutcomeSlowSuccess ->
           [w EXCEPT !.successCount = @ + 1, !.slowCallCount = @ + 1]
      [] o = OutcomeSlowFailure ->
           [w EXCEPT !.failureCount = @ + 1, !.slowCallCount = @ + 1]

\* faulty variant: the outcome a full ring gives up stays in the counters
WindowRecordOutcomeKeepsEvicted(w, o) ==
    LET stored == incrementOutcome([w EXCEPT !.ring[w.at] = o], o)
    IN  [stored EXCEPT !.at = (w.at % Len(w.ring)) + 1]

\* CountWindow.RecordOutcome
WindowRecordOutcome(w, o) ==
    LET evicted == IF w.ring[w.at] # "nil" THEN decrementOutcome(w, w.ring[w.at]) ELSE w
        stored == incrementOutcome([evicted EXCEPT !.ring[w.at] = o], o)
    IN  [stored EXCEPT !.at = (w.at % Len(w.ring)) + 1]

\* CountWindow.Size
WindowSize(w) == w.successCount + w.failureCount

\* CountWindow.Reset
WindowReset(w) == NewCountWindow(Len(w.ring))

\* a percentage kept as the fraction num/den, which is exact where the
\* float64 quotient of the code is rounded
Percent(count, total) == [num |-> count * 100, den |-> total]

\* rate >= threshold
RateAtLeast(rate, threshold) == rate.num >= threshold * rate.den

\* CountWindow.CallRates
CallRates(w) ==
    IF WindowSize(w) = 0
    THEN [totalCalls |-> 0, successRate |-> Percent(0, 1),
          failureRate |-> Percent(0, 1), slowCallRate |-> Percent(0, 1)]
    ELSE [totalCalls |-> WindowSize(w),
          successRate |-> Percent(w.successCount, WindowSize(w)),
          failureRate |-> Percent(w.failureCount, WindowSize(w)),
          slowCallRate |-> Percent(w.slowCallCount, WindowSize(w))]

(***************************************************************************)
(* The circuit breaker (circuitbreaker.circuitBreakerImpl).  before and    *)
(* after run under the breaker's mutex and are one step each.  Time is the *)
(* time since the last transition, in units of WaitDurationInOpenState,    *)
(* and the duration of a call in units of SlowCallDurationThreshold.       *)
(***************************************************************************)
StateClosed == "CLOSED"

StateHalfOpen == "HALF_OPEN"

StateOpen == "OPEN"

StateMetricsOnly == "METRICS_ONLY"

\* &PanicError{Recover: r, Cause: nil}
PanicError == <<"PanicError">>

\* fmt.Errorf("...: %w", ErrOpenState)
WrapErrOpenState == <<"wrap", "ErrOpenState">>

\* IsCallNotPermittedError
IsCallNotPermittedError(err) == Is(err, ErrOpenState) \/ Is(err, ErrHalfOpenState)

\* the configurations explored: defaultConfig with the options that set the
\* window, the thresholds and the number of half-open calls
Configs ==
    { [Window |-> NewCountWindow(WindowCapacity),
       MetricsOnlyMode |-> FALSE,
       MinimumNumberOfCalls |-> min,
       FailureRateThreshold |-> t[1],
       SlowCallRateThreshold |-> t[2],
       SlowCallDurationThreshold |-> 1,
       PermittedNumberOfCallsInHalfOpenState |-> permitted,
       WaitDurationInOpenState |-> 1,
       FailOnResultPredicate |-> FALSE,
       FailOnErrorPredicate |-> NilPredicate,
       FailErrors |-> <<>>,
       IgnoreErrors |-> <<>>] :
         min \in {1, 2}, t \in {<<50, 100>>, <<100, 50>>}, permitted \in {0, 1, 2} }

\* circuitbreaker.New: the breaker starts Closed whatever the config says
New(config) ==
    [state |-> StateClosed, sinceTransition |-> 0,
     halfOpenCompletedLeases |-> 0, halfOpenLeases |-> 0,
     window |-> config.Window, config |-> config]

\* circuitBreakerImpl.State: the state, read under the read lock
State(b) == b.state

\* faulty variant: only the entry into HalfOpen empties the window and
\* restarts the timestamp
setStateUnsafeResetsForHalfOpen(b, state) ==
    IF b.state = state THEN b
    ELSE IF state = StateHalfOpen
    THEN [b EXCEPT !.halfOpenLeases = b.config.PermittedNumberOfCallsInHalfOpenState,
                   !.halfOpenCompletedLeases = 0,
                   !.state = state, !.sinceTransition = 0,
                   !.window = WindowReset(b.window)]
    ELSE [b EXCEPT !.state = state]

\* circuitBreakerImpl.setStateUnsafe
setStateUnsafe(b, state) ==
    IF b.state = state THEN b
    ELSE LET seeded ==
               IF state = StateHalfOpen
               THEN [b EXCEPT
                       !.halfOpenLeases = b.config.PermittedNumberOfCallsInHalfOpenState,
                       !.halfOpenCompletedLeases = 0]
               ELSE b
         IN  [seeded EXCEPT !.state = state, !.sinceTransition = 0,
                            !.window = WindowReset(b.window)]

\* faulty variant: a rejected call takes a lease all the same, and a rejection
\* while Open restarts the wait
beforeChargesRejections(b) ==
    LET entered ==
          IF b.state = StateOpen /\ b.sinceTransition >= b.config.WaitDurationInOpenState
          THEN setStateUnsafe(b, StateHalfOpen)
          ELSE b
    IN  CASE entered.state = StateOpen ->
               [cb |-> [entered EXCEPT !.sinceTransition = 0], err |-> ErrOpenState]
          [] entered.state = StateHalfOpen ->
               [cb |-> [entered EXCEPT !.halfOpenLeases = @ - 1],
                err |-> IF entered.halfOpenLeases <= 0 THEN ErrHalfOpenState ELSE Nil]
          [] OTHER -> [cb |-> entered, err |-> Nil]

\* faulty variant: the transition to HalfOpen does not wait
beforeWithoutWait(b) ==
    LET entered ==
          IF b.state = StateOpen THEN setStateUnsafe(b, StateHalfOpen) ELSE b
    IN  CASE entered.state = StateOpen -> [cb |-> entered, err |-> ErrOpenState]
          [] entered.state = StateHalfOpen ->
               IF entered.halfOpenLeases <= 0
               THEN [cb |-> entered, err |-> ErrHalfOpenState]
               ELSE [cb |-> [entered EXCEPT !.halfOpenLeases = @ - 1], err |-> Nil]
          [] OTHER -> [cb |-> entered, err |-> Nil]

\* faulty variant: an admission in HalfOpen does not take a lease
beforeWithoutLease(b) ==
    LET entered ==
          IF b.state = StateOpen /\ b.sinceTransition >= b.config.WaitDurationInOpenState
          THEN setStateUnsafe(b, StateHalfOpen)
          ELSE b
    IN  CASE entered.state = StateOpen -> [cb |-> entered, err |-> ErrOpenState]
          [] entered.state = StateHalfOpen ->
               IF entered.halfOpenLeases <= 0
               THEN [cb |-> entered, err |-> ErrHalfOpenState]
               ELSE [cb |-> entered, err |-> Nil]
          [] OTHER -> [cb |-> entered, err |-> Nil]

\* circuitBreakerImpl.before: the breaker it leaves and the error it returns
before(b) ==
    LET entered ==
          IF b.state = StateOpen /\ b.sinceTransition >= b.config.WaitDurationInOpenState
          THEN setStateUnsafe(b, StateHalfOpen)
          ELSE b
    IN  CASE entered.state = StateOpen -> [cb |-> entered, err |-> ErrOpenState]
          [] entered.state = StateHalfOpen ->
               IF entered.halfOpenLeases <= 0
               THEN [cb |-> entered, err |-> ErrHalfOpenState]
               ELSE [cb |-> [entered EXCEPT !.halfOpenLeases = @ - 1], err |-> Nil]
          [] OTHER -> [cb |-> entered, err |-> Nil]

\* faulty variant: the ignore list is consulted before the fail list
shouldFailCallIgnoreFirst(config, result, err) ==
    IF err # Nil
    THEN IF config.FailOnErrorPredicate.set /\ err \in config.FailOnErrorPredicate.accepts
         THEN TRUE
         ELSE IF \E i \in 1..Len(config.IgnoreErrors) : Is(err, config.IgnoreErrors[i])
         THEN FALSE
         ELSE TRUE
    ELSE IF config.FailOnResultPredicate THEN ResultPredicate(result)
    ELSE FALSE

\* circuitBreakerImpl.shouldFailCall
shouldFailCall(config, result, err) ==
    IF err # Nil
    THEN IF config.FailOnErrorPredicate.set /\ err \in config.FailOnErrorPredicate.accepts
         THEN TRUE
         ELSE IF \E i \in 1..Len(config.FailErrors) : Is(err, config.FailErrors[i])
         THEN TRUE
         ELSE IF \E i \in 1..Len(config.IgnoreErrors) : Is(err, config.IgnoreErrors[i])
         THEN FALSE
         ELSE TRUE
    ELSE IF config.FailOnResultPredicate THEN ResultPredicate(result)
    ELSE FALSE

\* circuitBreakerImpl.areThresholdsExceededUnsafe
areThresholdsExceededUnsafe(b) ==
    \/ RateAtLeast(CallRates(b.window).failureRate, b.config.FailureRateThreshold)
    \/ RateAtLeast(CallRates(b.window).slowCallRate, b.config.SlowCallRateThreshold)

\* faulty variant: Closed trips on the rates alone
evaluateWithoutMinimum(b) ==
    CASE b.state = StateClosed ->
           IF areThresholdsExceededUnsafe(b) THEN setStateUnsafe(b, StateOpen) ELSE b
      [] b.state = StateHalfOpen ->
           IF b.halfOpenCompletedLeases >= b.config.PermittedNumberOfCallsInHalfOpenState
           THEN IF areThresholdsExceededUnsafe(b)
                THEN setStateUnsafe(b, StateOpen)
                ELSE setStateUnsafe(b, StateClosed)
           ELSE b
      [] OTHER -> b

\* faulty variant: HalfOpen asks for the minimum number of calls before it reopens
evaluateHalfOpenWithMinimum(b) ==
    CASE b.state = StateClosed ->
           IF /\ WindowSize(b.window) >= b.config.MinimumNumberOfCalls
              /\ areThresholdsExceededUnsafe(b)
           THEN setStateUnsafe(b, StateOpen)
           ELSE b
      [] b.state = StateHalfOpen ->
           IF b.halfOpenCompletedLeases >= b.config.PermittedNumberOfCallsInHalfOpenState
           THEN IF /\ WindowSize(b.window) >= b.config.MinimumNumberOfCalls
                   /\ areThresholdsExceededUnsafe(b)
                THEN setStateUnsafe(b, StateOpen)
                ELSE setStateUnsafe(b, StateClosed)
           ELSE b
      [] OTHER -> b

\* faulty variant: a call that completes while the breaker is Open closes it
\* when the thresholds are not met
evaluateAlsoWhenOpen(b) ==
    CASE b.state = StateClosed ->
           IF /\ WindowSize(b.window) >= b.config.MinimumNumberOfCalls
              /\ areThresholdsExceededUnsafe(b)
           THEN setStateUnsafe(b, StateOpen)
           ELSE b
      [] b.state = StateHalfOpen ->
           IF b.halfOpenCompletedLeases >= b.config.PermittedNumberOfCallsInHalfOpenState
           THEN IF areThresholdsExceededUnsafe(b)
                THEN setStateUnsafe(b, StateOpen)
                ELSE setStateUnsafe(b, StateClosed)
           ELSE b
      [] OTHER -> IF areThresholdsExceededUnsafe(b) THEN b
                  ELSE setStateUnsafe(b, StateClosed)

\* circuitBreakerImpl.evaluateStateTransitionUnsafe
evaluateStateTransitionUnsafe(b) ==
    CASE b.state = StateClosed ->
           IF /\ WindowSize(b.window) >= b.config.MinimumNumberOfCalls
              /\ areThresholdsExceededUnsafe(b)
           THEN setStateUnsafe(b, StateOpen)
           ELSE b
      [] b.state = StateHalfOpen ->
           IF b.halfOpenCompletedLeases >= b.config.PermittedNumberOfCallsInHalfOpenState
           THEN IF areThresholdsExceededUnsafe(b)
                THEN setStateUnsafe(b, StateOpen)
                ELSE setStateUnsafe(b, StateClosed)
           ELSE b
      [] OTHER -> b

\* the outcome after() records for a call
callOutcome(config, result, err, duration) ==
    LET isFailure == shouldFailCall(config, result, err)
        isSlow == duration >= config.SlowCallDurationThreshold
    IN  IF isFailure /\ isSlow THEN OutcomeSlowFailure
        ELSE IF isFailure THEN OutcomeFailure
        ELSE IF isSlow THEN OutcomeSlowSuccess
        ELSE OutcomeSuccess

\* circuitBreakerImpl.after
after(b, result, err, duration) ==
    LET recorded ==
          [b EXCEPT !.window =
              WindowRecordOutcome(b.window, callOutcome(b.config, result, err, duration))]
        counted ==
          IF recorded.state = StateHalfOpen /\ ~IsCallNotPermittedError(err)
          THEN [recorded EXCEPT !.halfOpenCompletedLeases = @ + 1]
          ELSE recorded
    IN  evaluateStateTransitionUnsafe(counted)

(***************************************************************************)
(* The breaker executor (circuitbreaker.Execute, safeExecute).             *)
(***************************************************************************)
\* what the guarded function does when it is invoked: it returns a result
\* and an error, or it panics
FnBehaviours ==
    { [panics |-> FALSE, v |-> "good", e |-> Nil],
      [panics |-> FALSE, v |-> "zero", e |-> E1],
      [panics |-> FALSE, v |-> "zero", e |-> WrapErrOpenState],
      [panics |-> TRUE, v |-> "zero", e |-> Nil] }

\* faulty variant: the recovered panic is not made the error of the call
cbSafeExecuteDropsPanic(ctxError, f) ==
    IF ctxError # Nil THEN [result |-> "zero", err |-> ctxError, invoked |-> FALSE]
    ELSE IF f.panics THEN [result |-> "zero", err |-> Nil, invoked |-> TRUE]
    ELSE [result |-> f.v, err |-> f.e, invoked |-> TRUE]

\* faulty variant: no look at the context before the function is invoked
cbSafeExecuteNoPrecheck(ctxError, f) ==
    IF f.panics THEN [result |-> "zero", err |-> PanicError, invoked |-> TRUE]
    ELSE [result |-> f.v, err |-> f.e, invoked |-> TRUE]

\* safeExecute: a done context is returned without invoking fn; a panic of fn
\* is recovered into a PanicError
cbSafeExecute(ctxError, f) ==
    IF ctxError # Nil THEN [result |-> "zero", err |-> ctxError, invoked |-> FALSE]
    ELSE IF f.panics THEN [result |-> "zero", err |-> PanicError, invoked |-> TRUE]
    ELSE [result |-> f.v, err |-> f.e, invoked |-> TRUE]

(***************************************************************************)
(* Concurrent callers of circuitbreaker.Execute on one breaker.            *)
(***************************************************************************)
\* number of goroutines calling Execute on the breaker
NumCallers == 2

Callers == 1..NumCallers

NoCall == [op |-> "none", err |-> Nil, from |-> "none", invoked |-> FALSE]

BreakerInit ==
    /\ cb \in {New(config) : config \in Configs}
    /\ calls = [c \in Callers |-> "idle"]
    /\ admitted = 0
    /\ userCalls = 0
    /\ lastCall = NoCall
    /\ reported = <<>>
    /\ ticket = [c \in Callers |-> "none"]
    /\ NoExecute
    /\ ConstructionIdle
    /\ LibraryIdle

\* time passes while the breaker is Open, the only state in which
\* transitionTime is read
Tick ==
    /\ cb.state = StateOpen
    /\ cb.sinceTransition < cb.config.WaitDurationInOpenState
    /\ cb' = [cb EXCEPT !.sinceTransition = @ + 1]
    /\ UNCHANGED <<calls, admitted, userCalls, lastCall, reported, ticket, vars,
                   constructionVars, libraryVars>>

\* the calls before() has let through since the breaker entered HalfOpen
Admissions(b, r) ==
    IF r.cb.state # StateHalfOpen THEN admitted
    ELSE (IF b.state # StateHalfOpen THEN 0 ELSE admitted)
         + (IF r.err = Nil THEN 1 ELSE 0)

\* Execute up to safeExecute: before() admits the call, or rejects it and
\* Execute returns the error
ExecuteBefore(c) ==
    /\ calls[c] = "idle"
    /\ LET r == before(cb)
       IN  /\ cb' = r.cb
           /\ calls' = [calls EXCEPT ![c] = IF r.err = Nil THEN "admitted" ELSE "idle"]
           /\ admitted' = Admissions(cb, r)
           /\ lastCall' = [op |-> "before", err |-> r.err, from |-> cb.state,
                           invoked |-> FALSE]
    /\ UNCHANGED <<userCalls, reported, vars, constructionVars, libraryVars>>

\* Execute from safeExecute on: the function runs unless the context is done,
\* after() records the call, and Execute returns
ExecuteAfter(c, ctxError, f, duration) ==
    /\ calls[c] = "admitted"
    /\ LET r == cbSafeExecute(ctxError, f)
       IN  /\ cb' = after(cb, r.result, r.err, duration)
           /\ lastCall' = [op |-> "after", err |-> r.err, from |-> cb.state,
                           invoked |-> r.invoked]
    /\ calls' = [calls EXCEPT ![c] = "idle"]
    /\ UNCHANGED <<admitted, userCalls, reported, vars, constructionVars, libraryVars>>

\* the two halves of Execute with no record kept of what a call was admitted
\* with
Before(c) == ExecuteBefore(c) /\ UNCHANGED ticket

Complete(c, ctxError, f, duration) ==
    ExecuteAfter(c, ctxError, f, duration) /\ UNCHANGED ticket

\* a goroutine asks the breaker for its state
StateCall ==
    /\ lastCall' = [op |-> "State", err |-> Nil, from |-> State(cb), invoked |-> FALSE]
    /\ UNCHANGED <<cb, calls, admitted, userCalls, reported, ticket, vars,
                   constructionVars, libraryVars>>

BreakerNext ==
    \/ Tick
    \/ StateCall
    \/ \E c \in Callers : Before(c)
    \/ \E c \in Callers, ctxError \in {Nil, Canceled}, f \in FnBehaviours,
          duration \in {0, 1} :
         Complete(c, ctxError, f, duration)

BreakerSpec == BreakerInit /\ [][BreakerNext]_allVars

(***************************************************************************)
(* Reading the window and the steps of the breaker.                        *)
(***************************************************************************)
\* the number of slots of a ring that hold one of the outcomes
Tally(ring, outcomes) == Cardinality({i \in 1..Len(ring) : ring[i] \in outcomes})

\* the thresholds of the config are met by the outcomes a window holds
ThresholdsMet(config, w) ==
    LET size == Tally(w.ring, {OutcomeSuccess, OutcomeFailure,
                               OutcomeSlowSuccess, OutcomeSlowFailure})
        failures == Tally(w.ring, {OutcomeFailure, OutcomeSlowFailure})
        slow == Tally(w.ring, {OutcomeSlowSuccess, OutcomeSlowFailure})
    IN  /\ size > 0
        /\ \/ failures * 100 >= config.FailureRateThreshold * size
           \/ slow * 100 >= config.SlowCallRateThreshold * size

\* the window once after() has recorded the call
Recorded(b, r, duration) ==
    WindowRecordOutcome(b.window, callOutcome(b.config, r.result, r.err, duration))

\* before() rejects: Open with the wait not over, HalfOpen with no lease left
Rejecting(b) ==
    \/ b.state = StateOpen /\ b.sinceTransition < b.config.WaitDurationInOpenState
    \/ b.state = StateHalfOpen /\ b.halfOpenLeases = 0

(***************************************************************************)
(* C16.  A Closed breaker moves to Open exactly when, the outcome of a     *)
(* call recorded, the window holds at least MinimumNumberOfCalls outcomes  *)
(* and the failure rate or the slow rate reaches its threshold; after any  *)
(* other call, and whenever the window holds fewer outcomes than the       *)
(* minimum, it is still Closed.                                            *)
(***************************************************************************)
C16_ClosedToOpen ==
    [][cb.state = StateClosed =>
         /\ cb'.state \in {StateClosed, StateOpen}
         /\ cb'.state = StateOpen => lastCall'.op = "after"
         /\ \A c \in Callers, ctxError \in {Nil, Canceled}, f \in FnBehaviours,
               duration \in {0, 1} :
              Complete(c, ctxError, f, duration) =>
                LET w == Recorded(cb, cbSafeExecute(ctxError, f), duration)
                    size == Tally(w.ring, {OutcomeSuccess, OutcomeFailure,
                                           OutcomeSlowSuccess, OutcomeSlowFailure})
                IN  /\ cb'.state = StateOpen <=>
                         /\ size >= cb.config.MinimumNumberOfCalls
                         /\ ThresholdsMet(cb.config, w)
                    /\ size < cb.config.MinimumNumberOfCalls => cb'.state = StateClosed
      ]_allVars

\* a breaker that asks for two calls has tripped out of Closed
C16_Witness ==
    /\ cb.state = StateOpen
    /\ lastCall.op = "after"
    /\ lastCall.from = StateClosed
    /\ cb.config.MinimumNumberOfCalls = 2

C18_Transition ==
    /\ cb.state = StateOpen /\ cb'.state # StateOpen =>
         /\ lastCall'.op = "before"
         /\ cb.sinceTransition >= cb.config.WaitDurationInOpenState
         /\ cb'.state = StateHalfOpen
         /\ cb'.halfOpenCompletedLeases = 0
         /\ cb'.window = NewCountWindow(Len(cb.window.ring))
    /\ \A c \in Callers :
         /\ Before(c)
         /\ cb.state = StateOpen
         /\ cb.sinceTransition >= cb.config.WaitDurationInOpenState
         => cb'.state = StateHalfOpen

C18_Original ==
    [][/\ C18_Transition
       /\ cb.state = StateOpen /\ cb'.state # StateOpen =>
            /\ lastCall'.err = Nil
            /\ cb'.halfOpenLeases = cb.config.PermittedNumberOfCallsInHalfOpenState - 1
            /\ \E c \in Callers : calls' = [calls EXCEPT ![c] = "admitted"] /\ calls[c] = "idle"
      ]_allVars

C18_OpenToHalfOpen ==
    [][/\ C18_Transition
       /\ /\ cb.state = StateOpen /\ cb'.state # StateOpen
          /\ cb.config.PermittedNumberOfCallsInHalfOpenState >= 1
          => /\ lastCall'.err = Nil
             /\ cb'.halfOpenLeases = cb.config.PermittedNumberOfCallsInHalfOpenState - 1
             /\ \E c \in Callers :
                  calls' = [calls EXCEPT ![c] = "admitted"] /\ calls[c] = "idle"
       /\ /\ cb.state = StateOpen /\ cb'.state # StateOpen
          /\ cb.config.PermittedNumberOfCallsInHalfOpenState = 0
          => /\ lastCall'.err = ErrHalfOpenState
             /\ cb'.halfOpenLeases = 0
             /\ calls' = calls
      ]_allVars

\* the call that found the wait over holds one of the two leases, and the
\* outcome a late call recorded while Open is gone from the window
C18_Witness ==
    /\ lastCall = [op |-> "before", err |-> Nil, from |-> StateOpen, invoked |-> FALSE]
    /\ cb.state = StateHalfOpen
    /\ cb.config.PermittedNumberOfCallsInHalfOpenState = 2
    /\ cb.halfOpenLeases = 1
    /\ cb.halfOpenCompletedLeases = 0
    /\ WindowSize(cb.window) = 0
    /\ \A c \in Callers : calls[c] = "admitted"

(***************************************************************************)
(* C19.  While the breaker is HalfOpen, however the callers interleave,    *)
(* before() admits at most the permitted number of calls: each admission   *)
(* takes one lease, halfOpenLeases stays within 0..permitted, and a call   *)
(* that finds no lease is rejected with ErrHalfOpenState.                  *)
(***************************************************************************)
C19_Leases ==
    [][/\ cb'.state = StateHalfOpen =>
            /\ admitted' <= cb'.config.PermittedNumberOfCallsInHalfOpenState
            /\ cb'.halfOpenLeases \in 0..cb'.config.PermittedNumberOfCallsInHalfOpenState
            /\ admitted' + cb'.halfOpenLeases =
                 cb'.config.PermittedNumberOfCallsInHalfOpenState
       /\ \A c \in Callers :
            Before(c) /\ cb.state = StateHalfOpen =>
              IF cb.halfOpenLeases > 0
              THEN /\ lastCall'.err = Nil
                   /\ calls'[c] = "admitted"
                   /\ cb'.halfOpenLeases = cb.halfOpenLeases - 1
                   /\ admitted' = admitted + 1
              ELSE /\ lastCall'.err = ErrHalfOpenState
                   /\ calls'[c] = "idle"
                   /\ cb'.halfOpenLeases = cb.halfOpenLeases
                   /\ admitted' = admitted
      ]_allVars

\* with one call permitted, one caller holds the lease and the other was rejected
C19_Witness ==
    /\ cb.state = StateHalfOpen
    /\ cb.config.PermittedNumberOfCallsInHalfOpenState = 1
    /\ admitted = 1
    /\ cb.halfOpenLeases = 0
    /\ \E c \in Callers : calls[c] = "admitted"
    /\ lastCall = [op |-> "before", err |-> ErrHalfOpenState, from |-> StateHalfOpen,
                  invoked |-> FALSE]

(***************************************************************************)
(* C20.  A HalfOpen breaker stays HalfOpen until halfOpenCompletedLeases   *)
(* reaches the permitted number; the after() in which it does moves the    *)
(* breaker to Open when the failure rate or the slow rate of the window    *)
(* reaches its threshold, whatever the number of calls in the window, and  *)
(* to Closed otherwise.                                                    *)
(***************************************************************************)
C20_HalfOpenExit ==
    [][cb.state = StateHalfOpen =>
         /\ cb'.state # StateHalfOpen => lastCall'.op = "after"
         /\ \A c \in Callers, ctxError \in {Nil, Canceled}, f \in FnBehaviours,
               duration \in {0, 1} :
              Complete(c, ctxError, f, duration) =>
                LET r == cbSafeExecute(ctxError, f)
                    completed == cb.halfOpenCompletedLeases
                                   + (IF IsCallNotPermittedError(r.err) THEN 0 ELSE 1)
                IN  IF completed >= cb.config.PermittedNumberOfCallsInHalfOpenState
                    THEN cb'.state =
                           IF ThresholdsMet(cb.config, Recorded(cb, r, duration))
                           THEN StateOpen ELSE StateClosed
                    ELSE /\ cb'.state = StateHalfOpen
                         /\ cb'.halfOpenCompletedLeases = completed
      ]_allVars

\* one permitted call failed and reopened a breaker whose minimum is two calls
C20_Witness ==
    /\ cb.state = StateOpen
    /\ lastCall.op = "after"
    /\ lastCall.from = StateHalfOpen
    /\ cb.config.PermittedNumberOfCallsInHalfOpenState = 1
    /\ cb.config.MinimumNumberOfCalls = 2

(***************************************************************************)
(* ExecuteWithCircuit: the engine runs the attempts of one call, and the   *)
(* function it attempts is circuitbreaker.Execute around the user          *)
(* function.  The policy comes from NewCircuitAwarePolicy; the breaker is  *)
(* new, or has tripped on an earlier call, or is HalfOpen with its lease   *)
(* out on a call of another caller.                                        *)
(***************************************************************************)
\* circuitbreaker.Execute, from before() to the return
cbExecute(b, ctxError, f, duration) ==
    LET admission == before(b)
        r == cbSafeExecute(ctxError, f)
    IN  IF admission.err # Nil
        THEN [cb |-> admission.cb, result |-> "zero", err |-> admission.err,
              invoked |-> FALSE, rejected |-> TRUE]
        ELSE [cb |-> after(admission.cb, r.result, r.err, duration),
              result |-> r.result, err |-> r.err,
              invoked |-> r.invoked, rejected |-> FALSE]

\* a breaker that one failed call has tripped
Tripped(config) == setStateUnsafe(New(config), StateOpen)

\* a tripped breaker whose wait is over and whose one lease another caller took
Probing(config) == before([Tripped(config) EXCEPT !.sinceTransition = 1]).cb

CircuitConfigs ==
    { config \in Configs :
        /\ config.MinimumNumberOfCalls = 1
        /\ config.FailureRateThreshold = 50
        /\ config.PermittedNumberOfCallsInHalfOpenState = 1 }

CircuitInit ==
    /\ ctor = "NewCircuitAwarePolicy"
    /\ options \in {l \in OptionLists : Len(l) <= 1}
    /\ newRet = NewCircuitAwarePolicy(options)
    /\ newRet.err = Nil
    /\ asked = NotAsked
    /\ policy = newRet.policy
    /\ ExecuteInit
    /\ cb \in UNION {{New(config), Tripped(config), Probing(config)} :
                       config \in CircuitConfigs}
    /\ calls = <<>>
    /\ admitted = IF cb.state = StateHalfOpen THEN 1 ELSE 0
    /\ userCalls = 0
    /\ lastCall = NoCall
    /\ reported = <<>>
    /\ ticket = <<>>
    /\ LibraryIdle

\* the function the engine attempts returns: circuitbreaker.Execute has
\* rejected the call, or has run the user function and recorded the call
CircuitFnReturn(f, duration) ==
    /\ pc = "inFn"
    /\ LET r == cbExecute(cb, attemptCtxErr, f, duration)
       IN  /\ cb' = r.cb
           /\ userCalls' = userCalls + (IF r.invoked THEN 1 ELSE 0)
           /\ admitted' = Admissions(cb, before(cb))
           /\ lastCall' = IF r.rejected
                          THEN [op |-> "before", err |-> r.err, from |-> cb.state,
                                invoked |-> FALSE]
                          ELSE [op |-> "after", err |-> r.err,
                                from |-> before(cb).cb.state, invoked |-> r.invoked]
           /\ AttemptDone(r.result, r.err)
    /\ UNCHANGED <<policy, ctxErr, fnCalls, skips, cancelAt, calls, reported, ticket,
                   constructionVars, libraryVars>>

CircuitNext ==
    \/ \E e \in {Canceled, DeadlineExceeded} : CancelParent(e)
    \/ DeadlineFire
    \/ TimerFire
    \/ Execute
    \/ AttemptScope
    \/ SafeExecute
    \/ \E f \in FnBehaviours, duration \in {0, 1} : CircuitFnReturn(f, duration)
    \/ SelectEnter
    \/ WaitCanceled
    \/ WaitElapsed
    \/ Tick

CircuitSpec == CircuitInit /\ [][CircuitNext]_allVars

(***************************************************************************)
(* C12.  With a policy from NewCircuitAwarePolicy, whatever further        *)
(* options it was given, a rejection by the breaker (ErrOpenState,         *)
(* ErrHalfOpenState) is not retryable: when the breaker rejects the first  *)
(* attempt of ExecuteWithCircuit, the call ends after that one attempt     *)
(* with Outcome.FailureReason = non_retryable and the user function has    *)
(* not been invoked.                                                       *)
(*                                                                         *)
(* C12_Original states it for the policies that carry no error predicate,  *)
(* the predicate being documented to decide alone when one is set.         *)
(***************************************************************************)
C12_Rejected ==
    /\ ~policy.retryOnErrorPredicate.set
    /\ Len(retryErr.Attempts) >= 1
    /\ retryErr.Attempts[1].Error \in {ErrOpenState, ErrHalfOpenState}

C12_Original ==
    C12_Rejected =>
        /\ ~retryErr.Attempts[1].Retryable
        /\ Returned
        /\ Len(retryErr.Attempts) = 1
        /\ outcome.FailureReason = OutcomeFailureReasonNonRetryable
        /\ userCalls = 0

(***************************************************************************)
(* A breaker built with WithMetricsOnlyMode, under the same callers.       *)
(***************************************************************************)
\* circuitbreaker.WithMetricsOnlyMode
WithMetricsOnlyMode(config) == [config EXCEPT !.MetricsOnlyMode = TRUE]

MetricsOnlyInit ==
    /\ cb \in {New(WithMetricsOnlyMode(config)) : config \in Configs}
    /\ calls = [c \in Callers |-> "idle"]
    /\ admitted = 0
    /\ userCalls = 0
    /\ lastCall = NoCall
    /\ reported = <<>>
    /\ ticket = [c \in Callers |-> "none"]
    /\ NoExecute
    /\ ConstructionIdle
    /\ LibraryIdle

MetricsOnlySpec == MetricsOnlyInit /\ [][BreakerNext]_allVars

(***************************************************************************)
(* C21.  A breaker constructed with WithMetricsOnlyMode admits every call: *)
(* before() never returns ErrOpenState or ErrHalfOpenState, whatever       *)
(* outcomes have been recorded.                                            *)
(*                                                                         *)
(* C21_Original is the statement as made.  New() does not read the flag:   *)
(* the breaker starts Closed, trips as any other and then rejects.         *)
(***************************************************************************)
C21_Original ==
    cb.config.MetricsOnlyMode /\ lastCall.op = "before" =>
        lastCall.err \notin {ErrOpenState, ErrHalfOpenState}

(***************************************************************************)
(* Breakers whose config classifies calls with the fail predicates and the *)
(* fail and ignore lists, under the same callers; the function may return  *)
(* a result the result predicate fails and errors the lists name.          *)
(***************************************************************************)
\* how the explored configs classify errors: WithFailOnErrorPredicate (set:
\* whether it is non-nil, accepts: the errors it returns true for),
\* WithFailErrors and WithIgnoreErrors
FailureConfigs ==
    { [pred |-> NilPredicate, failErrors |-> <<>>, ignoreErrors |-> <<>>],
      [pred |-> NilPredicate, failErrors |-> <<E1>>, ignoreErrors |-> <<E1>>],
      [pred |-> NilPredicate, failErrors |-> <<>>, ignoreErrors |-> <<E1>>],
      [pred |-> NilPredicate, failErrors |-> <<>>, ignoreErrors |-> <<Canceled>>],
      [pred |-> [set |-> TRUE, accepts |-> {E2}],
       failErrors |-> <<>>, ignoreErrors |-> <<E2>>],
      [pred |-> [set |-> TRUE, accepts |-> {}],
       failErrors |-> <<E2>>, ignoreErrors |-> <<E1, E2>>] }

ClassifyConfigs ==
    { [config EXCEPT !.FailOnResultPredicate = rp,
                     !.FailOnErrorPredicate = c.pred,
                     !.FailErrors = c.failErrors,
                     !.IgnoreErrors = c.ignoreErrors] :
        config \in { k \in Configs : /\ k.MinimumNumberOfCalls = 2
                                     /\ k.FailureRateThreshold = 50
                                     /\ k.PermittedNumberOfCallsInHalfOpenState = 1 },
        rp \in BOOLEAN, c \in FailureConfigs }

\* what the guarded function does when it is invoked
ClassifyFnBehaviours ==
    { [panics |-> FALSE, v |-> v, e |-> e] :
        v \in {"good", "bad"}, e \in {Nil, E1, E2, WrapE1} }
      \cup { [panics |-> TRUE, v |-> "zero", e |-> Nil] }

ClassifyInit ==
    /\ cb \in {New(config) : config \in ClassifyConfigs}
    /\ calls = [c \in Callers |-> "idle"]
    /\ admitted = 0
    /\ userCalls = 0
    /\ lastCall = NoCall
    /\ reported = <<>>
    /\ ticket = [c \in Callers |-> "none"]
    /\ NoExecute
    /\ ConstructionIdle
    /\ LibraryIdle

ClassifyNext ==
    \/ Tick
    \/ \E c \in Callers : Before(c)
    \/ \E c \in Callers, ctxError \in {Nil, Canceled}, f \in ClassifyFnBehaviours,
          duration \in {0, 1} :
         Complete(c, ctxError, f, duration)

ClassifySpec == ClassifyInit /\ [][ClassifyNext]_allVars

(***************************************************************************)
(* C22.  The breaker classifies a completed call from (result, err,        *)
(* duration) and its config.  With an error the call is a failure when     *)
(* FailOnErrorPredicate returns true, or else the error matches an entry   *)
(* of FailErrors, or else it matches no entry of IgnoreErrors; without an  *)
(* error it is a failure iff FailOnResultPredicate is set and returns      *)
(* true.  It is slow iff duration >= SlowCallDurationThreshold.  The slot  *)
(* the window fills holds the outcome so classified, a slow failure being  *)
(* SlowFailure, and the failure and slow counters count every slot that    *)
(* holds a failure, respectively a slow call.  Where after() moves the     *)
(* breaker the window is emptied; a Closed breaker opens exactly when the  *)
(* window with that outcome recorded meets the minimum and a threshold.    *)
(***************************************************************************)
C22_IsFailure(config, result, err) ==
    IF err # Nil
    THEN \/ config.FailOnErrorPredicate.set /\ err \in config.FailOnErrorPredicate.accepts
         \/ \E i \in 1..Len(config.FailErrors) : Is(err, config.FailErrors[i])
         \/ ~ \E i \in 1..Len(config.IgnoreErrors) : Is(err, config.IgnoreErrors[i])
    ELSE config.FailOnResultPredicate /\ ResultPredicate(result)

C22_Outcome(config, result, err, duration) ==
    LET failure == C22_IsFailure(config, result, err)
        slow == duration >= config.SlowCallDurationThreshold
    IN  CASE failure /\ slow -> OutcomeSlowFailure
          [] failure /\ ~slow -> OutcomeFailure
          [] ~failure /\ slow -> OutcomeSlowSuccess
          [] OTHER -> OutcomeSuccess

C22_Classification ==
    [][\A c \in Callers, ctxError \in {Nil, Canceled}, f \in ClassifyFnBehaviours,
          duration \in {0, 1} :
         Complete(c, ctxError, f, duration) =>
           LET r == cbSafeExecute(ctxError, f)
               o == C22_Outcome(cb.config, r.result, r.err, duration)
               w == WindowRecordOutcome(cb.window, o)
           IN  /\ cb'.state = cb.state =>
                    /\ cb'.window.ring[cb.window.at] = o
                    /\ cb'.window.failureCount =
                         Tally(cb'.window.ring, {OutcomeFailure, OutcomeSlowFailure})
                    /\ cb'.window.slowCallCount =
                         Tally(cb'.window.ring, {OutcomeSlowSuccess, OutcomeSlowFailure})
                    /\ cb'.window.successCount =
                         Tally(cb'.window.ring, {OutcomeSuccess, OutcomeSlowSuccess})
               /\ cb'.state # cb.state => WindowSize(cb'.window) = 0
               /\ cb.state = StateClosed =>
                    (cb'.state = StateOpen <=>
                       /\ WindowSize(w) >= cb.config.MinimumNumberOfCalls
                       /\ ThresholdsMet(cb.config, w))
      ]_allVars

\* an error that wraps an entry of both lists was recorded as a slow failure
C22_Witness ==
    /\ lastCall.op = "after"
    /\ lastCall.err = WrapE1
    /\ cb.config.FailErrors = <<E1>>
    /\ cb.config.IgnoreErrors = <<E1>>
    /\ cb.state = StateClosed
    /\ cb.window.ring = <<OutcomeSlowFailure, "nil">>
    /\ cb.window.failureCount = 1
    /\ cb.window.slowCallCount = 1

(***************************************************************************)
(* C23.  When the function panics under circuitbreaker.Execute, Execute    *)
(* returns a PanicError to its caller and after() has run once with that   *)
(* error: the breaker is the one after(zero, PanicError, duration) leaves. *)
(* Under the default classification the call is in the window as a         *)
(* failure and, in HalfOpen, counts as a completed call, unless that very  *)
(* call moved the breaker and emptied the window; the caller is free to    *)
(* call again.                                                             *)
(***************************************************************************)
C23_PanicRecorded ==
    [][\A c \in Callers, f \in FnBehaviours, duration \in {0, 1} :
         f.panics /\ Complete(c, Nil, f, duration) =>
           /\ lastCall'.err = PanicError
           /\ lastCall'.invoked
           /\ calls'[c] = "idle"
           /\ cb' = after(cb, "zero", PanicError, duration)
           /\ cb'.state = cb.state =>
                /\ cb'.window.ring[cb.window.at] =
                     IF duration >= cb.config.SlowCallDurationThreshold
                     THEN OutcomeSlowFailure ELSE OutcomeFailure
                /\ cb'.window.at = (cb.window.at % Len(cb.window.ring)) + 1
                /\ cb'.window.failureCount =
                     Tally(cb'.window.ring, {OutcomeFailure, OutcomeSlowFailure})
                /\ cb.state = StateHalfOpen =>
                     cb'.halfOpenCompletedLeases = cb.halfOpenCompletedLeases + 1
           /\ cb'.state # cb.state =>
                \/ cb.state = StateClosed /\ cb'.state = StateOpen
                \/ /\ cb.state = StateHalfOpen
                   /\ cb.halfOpenCompletedLeases + 1 >=
                        cb.config.PermittedNumberOfCallsInHalfOpenState
      ]_allVars

\* a panic was the first of two permitted half-open calls to complete
C23_Witness ==
    /\ lastCall = [op |-> "after", err |-> PanicError, from |-> StateHalfOpen,
                   invoked |-> TRUE]
    /\ cb.state = StateHalfOpen
    /\ cb.config.PermittedNumberOfCallsInHalfOpenState = 2
    /\ cb.halfOpenCompletedLeases = 1
    /\ cb.window.failureCount = 1
    /\ \E c \in Callers : calls[c] = "idle"

(***************************************************************************)
(* C24.  When the context is already done as circuitbreaker.Execute is     *)
(* called and before() admits the call, the function is not invoked,       *)
(* Execute returns the context's error and after() has run once with the   *)
(* zero result and that error: the breaker is the one                      *)
(* after(zero, ctx.Err(), duration) leaves, whatever the function would    *)
(* have done.  The outcome is in the window and, in HalfOpen, the lease    *)
(* the call took is completed, unless that very call moved the breaker     *)
(* and emptied the window.                                                 *)
(***************************************************************************)
C24_CanceledBeforeCall ==
    [][\A c \in Callers, f \in FnBehaviours, duration \in {0, 1} :
         Complete(c, Canceled, f, duration) =>
           /\ ~lastCall'.invoked
           /\ userCalls' = userCalls
           /\ lastCall'.err = Canceled
           /\ calls'[c] = "idle"
           /\ cb' = after(cb, "zero", Canceled, duration)
           /\ cb'.state = cb.state =>
                /\ cb'.window.ring[cb.window.at] # "nil"
                /\ cb'.window.at = (cb.window.at % Len(cb.window.ring)) + 1
                /\ WindowSize(cb'.window) =
                     Tally(cb'.window.ring, {OutcomeSuccess, OutcomeFailure,
                                             OutcomeSlowSuccess, OutcomeSlowFailure})
                /\ cb.state = StateHalfOpen =>
                     /\ cb'.halfOpenCompletedLeases = cb.halfOpenCompletedLeases + 1
                     /\ cb'.halfOpenLeases = cb.halfOpenLeases
                     /\ cb.halfOpenLeases <
                          cb.config.PermittedNumberOfCallsInHalfOpenState
           /\ cb'.state # cb.state =>
                \/ cb.state = StateClosed /\ cb'.state = StateOpen
                \/ /\ cb.state = StateHalfOpen
                   /\ cb.halfOpenCompletedLeases + 1 >=
                        cb.config.PermittedNumberOfCallsInHalfOpenState
      ]_allVars

\* a call admitted in HalfOpen found its context done: the function did not
\* run, and the call is the first of two permitted calls to complete
C24_Witness ==
    /\ lastCall = [op |-> "after", err |-> Canceled, from |-> StateHalfOpen,
                   invoked |-> FALSE]
    /\ cb.state = StateHalfOpen
    /\ cb.config.PermittedNumberOfCallsInHalfOpenState = 2
    /\ cb.halfOpenCompletedLeases = 1
    /\ cb.halfOpenLeases <= 1
    /\ WindowSize(cb.window) = 1

(***************************************************************************)
(* A count window used on its own: any sequence of RecordOutcome, with the *)
(* four outcomes, and Reset on a window of each capacity from 1.           *)
(***************************************************************************)
\* most RecordOutcome calls between two resets
MaxRecords == 6

WindowInit ==
    /\ capacity \in 1..WindowCapacity
    /\ window = NewCountWindow(capacity)
    /\ sinceReset = 0
    /\ past = <<>>
    /\ NoExecute
    /\ ConstructionIdle
    /\ BreakerIdle
    /\ LockIdle
    /\ ExponentialIdle
    /\ MetricsIdle

\* w.RecordOutcome(o)
RecordOutcomeCall(o) ==
    /\ sinceReset < MaxRecords
    /\ window' = WindowRecordOutcome(window, o)
    /\ sinceReset' = sinceReset + 1
    /\ past' = Append(past, o)
    /\ UNCHANGED <<capacity, vars, constructionVars, breakerVars, lockVars,
                   exponentialVars, metricsVars>>

\* w.Reset()
ResetCall ==
    /\ window' = WindowReset(window)
    /\ sinceReset' = 0
    /\ past' = <<>>
    /\ UNCHANGED <<capacity, vars, constructionVars, breakerVars, lockVars,
                   exponentialVars, metricsVars>>

WindowNext ==
    \/ \E o \in {OutcomeSuccess, OutcomeFailure, OutcomeSlowSuccess, OutcomeSlowFailure} :
         RecordOutcomeCall(o)
    \/ ResetCall

WindowSpec == WindowInit /\ [][WindowNext]_allVars

\* the smaller of two numbers
Min(a, b) == IF a <= b THEN a ELSE b

\* a rate is a percentage
InPercentRange(rate) == rate.num >= 0 /\ rate.num <= 100 * rate.den

(***************************************************************************)
(* C25.  After any sequence of RecordOutcome and Reset on a count window   *)
(* of capacity C: Size() is the number of filled slots, which is the       *)
(* smaller of C and the number of records since the last reset;            *)
(* successCount + failureCount = Size(); 0 <= slowCallCount <= Size();     *)
(* every rate is within [0, 100], and all rates and the total are 0 when   *)
(* the window is empty; right after Reset all counters and Size() are 0    *)
(* and the ring still has C slots.                                         *)
(***************************************************************************)
C25_Counters ==
    LET filled == Tally(window.ring, {OutcomeSuccess, OutcomeFailure,
                                      OutcomeSlowSuccess, OutcomeSlowFailure})
        rates == CallRates(window)
    IN  /\ WindowSize(window) = filled
        /\ filled = Min(sinceReset, capacity)
        /\ window.successCount + window.failureCount = WindowSize(window)
        /\ window.successCount >= 0
        /\ window.failureCount >= 0
        /\ window.slowCallCount >= 0
        /\ window.slowCallCount <= WindowSize(window)
        /\ InPercentRange(rates.successRate)
        /\ InPercentRange(rates.failureRate)
        /\ InPercentRange(rates.slowCallRate)
        /\ rates.totalCalls = WindowSize(window)
        /\ WindowSize(window) = 0 =>
             /\ rates.successRate.num = 0
             /\ rates.failureRate.num = 0
             /\ rates.slowCallRate.num = 0
        /\ Len(window.ring) = capacity

C25_WindowInvariants ==
    /\ []C25_Counters
    /\ [][ResetCall =>
            /\ window'.successCount = 0
            /\ window'.failureCount = 0
            /\ window'.slowCallCount = 0
            /\ WindowSize(window') = 0
            /\ Len(window'.ring) = capacity
            /\ \A i \in 1..capacity : window'.ring[i] = "nil"
         ]_allVars

\* a full window of two slots has taken a third record, which replaced a slow
\* failure by a success
C25_Witness ==
    /\ capacity = WindowCapacity
    /\ sinceReset = capacity + 1
    /\ WindowSize(window) = capacity
    /\ window.slowCallCount = 0
    /\ window.failureCount = 0
    /\ window.successCount = capacity

(***************************************************************************)
(* The breaker's mutex.  before() and after() are taken apart into the     *)
(* step that takes circuitBreakerImpl.mu and reads the breaker's fields    *)
(* and the step that writes them and releases it; callers interleave at    *)
(* every step.  The function and the classification of its outcome run     *)
(* before after() takes the mutex and touch no field of the breaker.  The  *)
(* clock is read once, on entry to before().                               *)
(***************************************************************************)
\* faulty variant: Lock never blocks
LockedNever(m) == FALSE

\* sync.RWMutex: Lock blocks while a caller holds the mutex
Locked(m) == m # {}

NoLocal == [b |-> [state |-> "none"], result |-> "zero", err |-> Nil, duration |-> 0]

LockConfigs ==
    { config \in Configs :
        /\ config.MinimumNumberOfCalls = 2
        /\ config.FailureRateThreshold = 50
        /\ config.PermittedNumberOfCallsInHalfOpenState \in {1, 2} }

LockInit ==
    /\ cb \in {New(config) : config \in LockConfigs}
    /\ calls = [c \in Callers |-> "idle"]
    /\ admitted = 0
    /\ userCalls = 0
    /\ lastCall = NoCall
    /\ reported = <<>>
    /\ ticket = [c \in Callers |-> "none"]
    /\ mu = {}
    /\ local = [c \in Callers |-> NoLocal]
    /\ serial = cb
    /\ NoExecute
    /\ ConstructionIdle
    /\ WindowIdle
    /\ ExponentialIdle
    /\ MetricsIdle

\* time passes while the breaker is Open and nobody is inside before()
LockTick ==
    /\ mu = {}
    /\ cb.state = StateOpen
    /\ cb.sinceTransition < cb.config.WaitDurationInOpenState
    /\ cb' = [cb EXCEPT !.sinceTransition = @ + 1]
    /\ serial' = IF serial.state = StateOpen
                    /\ serial.sinceTransition < serial.config.WaitDurationInOpenState
                 THEN [serial EXCEPT !.sinceTransition = @ + 1]
                 ELSE serial
    /\ UNCHANGED <<calls, admitted, userCalls, lastCall, reported, ticket, mu, local, vars,
                   constructionVars, windowVars, exponentialVars, metricsVars>>

\* before(): cb.mu.Lock(), and the fields are read
LockBefore(c) ==
    /\ calls[c] = "idle"
    /\ ~Locked(mu)
    /\ mu' = mu \cup {c}
    /\ local' = [local EXCEPT ![c] = [NoLocal EXCEPT !.b = cb]]
    /\ calls' = [calls EXCEPT ![c] = "inBefore"]
    /\ UNCHANGED <<cb, serial, admitted, userCalls, lastCall, reported, ticket, vars,
                   constructionVars, windowVars, exponentialVars, metricsVars>>

\* before(): the fields are written, the deferred Unlock runs and before()
\* returns
UnlockBefore(c) ==
    /\ calls[c] = "inBefore"
    /\ LET r == before(local[c].b)
       IN  /\ cb' = r.cb
           /\ calls' = [calls EXCEPT ![c] = IF r.err = Nil THEN "admitted" ELSE "idle"]
    /\ serial' = before(serial).cb
    /\ mu' = mu \ {c}
    /\ local' = [local EXCEPT ![c] = NoLocal]
    /\ UNCHANGED <<admitted, userCalls, lastCall, reported, ticket, vars,
                   constructionVars, windowVars,
                   exponentialVars, metricsVars>>

\* safeExecute has returned and after() has classified the call: cb.mu.Lock(),
\* and the fields are read
LockAfter(c, ctxError, f, duration) ==
    /\ calls[c] = "admitted"
    /\ ~Locked(mu)
    /\ mu' = mu \cup {c}
    /\ LET r == cbSafeExecute(ctxError, f)
       IN  local' = [local EXCEPT ![c] = [b |-> cb, result |-> r.result,
                                          err |-> r.err, duration |-> duration]]
    /\ calls' = [calls EXCEPT ![c] = "inAfter"]
    /\ UNCHANGED <<cb, serial, admitted, userCalls, lastCall, reported, ticket, vars,
                   constructionVars, windowVars, exponentialVars, metricsVars>>

\* after(): the fields are written, the deferred Unlock runs and Execute
\* returns
UnlockAfter(c) ==
    /\ calls[c] = "inAfter"
    /\ cb' = after(local[c].b, local[c].result, local[c].err, local[c].duration)
    /\ serial' = after(serial, local[c].result, local[c].err, local[c].duration)
    /\ mu' = mu \ {c}
    /\ local' = [local EXCEPT ![c] = NoLocal]
    /\ calls' = [calls EXCEPT ![c] = "idle"]
    /\ UNCHANGED <<admitted, userCalls, lastCall, reported, ticket, vars,
                   constructionVars, windowVars,
                   exponentialVars, metricsVars>>

LockNext ==
    \/ LockTick
    \/ \E c \in Callers : LockBefore(c)
    \/ \E c \in Callers : UnlockBefore(c)
    \/ \E c \in Callers, ctxError \in {Nil, Canceled}, f \in FnBehaviours,
          duration \in {0, 1} :
         LockAfter(c, ctxError, f, duration)
    \/ \E c \in Callers : UnlockAfter(c)

LockSpec == LockInit /\ [][LockNext]_allVars

(***************************************************************************)
(* C26.  Under any interleaving of concurrent circuitbreaker.Execute calls *)
(* on one breaker, before() and after() take effect one at a time: at most *)
(* one caller is between the read and the write of the breaker's fields,   *)
(* what it read is what the breaker holds when it writes, and the          *)
(* breaker's state, lease counters and window are at every moment those of *)
(* the same before() and after() calls run one after another, in the order *)
(* in which they released the mutex.                                       *)
(***************************************************************************)
C26_Linearizable ==
    /\ Cardinality(mu) <= 1
    /\ \A c \in mu : local[c].b = cb
    /\ cb = serial

\* in HalfOpen with both leases taken, one call has completed and is in the
\* window, and the other caller holds the mutex inside after()
C26_Witness ==
    /\ cb.config.PermittedNumberOfCallsInHalfOpenState = 2
    /\ cb.state = StateHalfOpen
    /\ cb.halfOpenLeases = 0
    /\ cb.halfOpenCompletedLeases = 1
    /\ \E c \in Callers : calls[c] = "inAfter" /\ mu = {c}
    /\ WindowSize(cb.window) = 1

(***************************************************************************)
(* C27.  Within one retry.Execute call the attempts are strictly           *)
(* sequential.  At most one invocation of the user function is in          *)
(* progress: the invocations begun and the attempts ended without one are  *)
(* as many as the attempts reported, plus one exactly while the function   *)
(* runs.  Attempt 1 starts from Execute; attempt N+1 starts only from a    *)
(* backoff wait that returned on its timer, after attempt N was reported   *)
(* and appended to the RetryError, and never from a wait that returned the *)
(* context's error.  The function is invoked only inside its attempt, with *)
(* every earlier attempt reported and every earlier wait elapsed.          *)
(***************************************************************************)
C27_OneInProgress ==
    fnCalls + skips - CountOf("attempt") = IF pc = "inFn" THEN 1 ELSE 0

C27_AttemptStart ==
    pc' = "attempt" /\ pc # "attempt" =>
        \/ Execute /\ attemptCount' = 1 /\ fnCalls = 0 /\ skips = 0
        \/ /\ WaitElapsed
           /\ timerFired
           /\ attemptCount' = attemptCount + 1
           /\ CountOf("attempt") = attemptCount
           /\ Len(retryErr.Attempts) = attemptCount
           /\ fnCalls + skips = attemptCount
           /\ waits = attemptCount
           /\ retryErr.TerminationError = Nil

C27_Invocation ==
    fnCalls' # fnCalls =>
        /\ fnCalls' = fnCalls + 1
        /\ pc = "safeExecute" /\ pc' = "inFn"
        /\ fnCalls + skips = attemptCount - 1
        /\ CountOf("attempt") = attemptCount - 1
        /\ CountOf("backoff") = attemptCount - 1
        /\ waits = attemptCount - 1

C27_Sequential ==
    /\ []C27_OneInProgress
    /\ [][C27_AttemptStart /\ C27_Invocation]_vars

\* the function runs in a third attempt, two waits behind it
C27_Witness ==
    /\ pc = "inFn"
    /\ attemptCount = 3
    /\ fnCalls = 3
    /\ waits = 2
    /\ CountOf("backoff") = 2
    /\ Len(retryErr.Attempts) = 2

(***************************************************************************)
(* backoff.Exponential.  A duration is a whole number of units.  uint has  *)
(* UintBits bits and a float64 is a whole number up to MaxFloat, an        *)
(* infinity or NaN: a product beyond MaxFloat is an infinity, as a float64 *)
(* product beyond math.MaxFloat64 is.                                      *)
(***************************************************************************)
\* bits of a uint
UintBits == 3

UintModulus == 2 ^ UintBits

Uint == 0..(UintModulus - 1)

\* the largest finite float64
MaxFloat == 64

Finite(v) == [k |-> "finite", v |-> v]

Inf(sign) == [k |-> "inf", v |-> sign]

NaN == [k |-> "nan", v |-> 0]

Sign(v) == IF v > 0 THEN 1 ELSE IF v < 0 THEN -1 ELSE 0

\* the float64 nearest to a whole number
Rounded(v) ==
    IF v > MaxFloat THEN Inf(1) ELSE IF v < -MaxFloat THEN Inf(-1) ELSE Finite(v)

\* a * b in float64
FMul(a, b) ==
    IF a.k = "nan" \/ b.k = "nan" THEN NaN
    ELSE IF a.k = "inf" \/ b.k = "inf"
    THEN IF a.v = 0 \/ b.v = 0 THEN NaN ELSE Inf(Sign(a.v) * Sign(b.v))
    ELSE Rounded(a.v * b.v)

\* a + b in float64
FAdd(a, b) ==
    IF a.k = "nan" \/ b.k = "nan" THEN NaN
    ELSE IF a.k = "inf" /\ b.k = "inf" THEN (IF a.v = b.v THEN a ELSE NaN)
    ELSE IF a.k = "inf" THEN a
    ELSE IF b.k = "inf" THEN b
    ELSE Rounded(a.v + b.v)

\* a > b in float64
FGreater(a, b) ==
    /\ a.k # "nan" /\ b.k # "nan"
    /\ CASE a.k = "inf" /\ b.k = "inf" -> a.v > b.v
         [] a.k = "inf" /\ b.k = "finite" -> a.v > 0
         [] a.k = "finite" /\ b.k = "inf" -> b.v < 0
         [] OTHER -> a.v > b.v

\* the builtin max(0, a) on float64
FMax0(a) == IF a.k = "nan" THEN NaN ELSE IF FGreater(a, Finite(0)) THEN a ELSE Finite(0)

\* math.Pow(x, y) for whole x >= 0 and y >= 0
RECURSIVE Pow(_, _)
Pow(x, y) == IF y = 0 THEN Finite(1) ELSE FMul(Pow(x, y - 1), Finite(x))

\* the largest int64, beyond every duration computed here
MaxInt == UintModulus * MaxFloat

\* time.Duration(f): a float64 an int64 cannot hold converts to a value that
\* depends on the implementation (amd64: the least int64; arm64: 0 for NaN,
\* the nearest int64 for an infinity)
ToDuration(f) == IF f.k = "finite" THEN {f.v} ELSE {-MaxInt, 0, MaxInt}

\* 2*rand.Float64() - 1, a number of [-1, 1), at the whole numbers
RandomFactors == {-1, 0}

\* Exponential.Next(attempt), r being 2*rand.Float64() - 1: the durations the
\* build can return
ExponentialNext(e, attempt, r) ==
    LET exponent == (attempt - 1) % UintModulus
        base == FMul(Finite(e.initialInterval), Pow(e.multiplier, exponent))
        jittered ==
          IF e.jitter > 0
          THEN FMax0(FAdd(base, FMul(FMul(base, Finite(e.jitter)), Finite(r))))
          ELSE base
        capped == IF FGreater(jittered, Finite(e.maxInterval))
                  THEN Finite(e.maxInterval)
                  ELSE jittered
    IN  ToDuration(capped)

\* NewExponential with its options: none of them is validated
Exponentials ==
    [initialInterval : {0, 1, 2}, maxInterval : {1, 4}, multiplier : {1, 2},
     jitter : {0, 1}]

ExponentialInit ==
    /\ exponential \in Exponentials
    /\ nextCall = NoNextCall
    /\ prevCall = NoNextCall
    /\ NoExecute
    /\ ConstructionIdle
    /\ BreakerIdle
    /\ WindowIdle
    /\ LockIdle
    /\ MetricsIdle

\* e.Next(attempt); rand.Float64() is called only with a jitter
NextCall(attempt, r) ==
    /\ exponential.jitter > 0 \/ r = 0
    /\ \E d \in ExponentialNext(exponential, attempt, r) :
         nextCall' = [set |-> TRUE, attempt |-> attempt, d |-> d]
    /\ prevCall' = nextCall
    /\ UNCHANGED <<exponential, vars, constructionVars, breakerVars, windowVars,
                   lockVars, metricsVars>>

ExponentialNextStep == \E attempt \in Uint, r \in RandomFactors : NextCall(attempt, r)

ExponentialSpec == ExponentialInit /\ [][ExponentialNextStep]_allVars

(***************************************************************************)
(* C28.  For backoff.Exponential with jitter = 0 and multiplier >= 1, for  *)
(* every attempt of the uint domain, 0 included: Next(attempt) <=          *)
(* Next(attempt + 1) and 0 <= Next(attempt) <= maxInterval.                *)
(*                                                                         *)
(* C28_Original is the statement as made, for the values with a positive   *)
(* initialInterval, where no NaN arises.  Next(0) computes the exponent    *)
(* attempt - 1 in uint: it wraps to the largest uint, the power overflows  *)
(* and Next(0) is maxInterval, above Next(1).                              *)
(***************************************************************************)
C28_Original ==
    /\ exponential.jitter = 0
    /\ exponential.multiplier >= 1
    /\ exponential.initialInterval > 0
    /\ nextCall.set
    => /\ 0 <= nextCall.d
       /\ nextCall.d <= exponential.maxInterval
       /\ prevCall.set /\ prevCall.attempt + 1 = nextCall.attempt =>
            prevCall.d <= nextCall.d

(***************************************************************************)
(* The process-wide metrics reporter of package retry: an atomic.Value     *)
(* written by SetGlobalMetrics and read by GetGlobalMetrics, from any      *)
(* goroutine.  Store and Load are atomic, so each call is one step.  A     *)
(* reporter is its concrete type and which value of that type it is.       *)
(***************************************************************************)
\* a nil Metrics, and what Load() returns of a Value never stored to
NilMetrics == [type |-> "nil", id |-> 0]

\* &NoopMetrics{}
Noop == [type |-> "*NoopMetrics", id |-> 0]

\* the reporters a program installs: two *OTelMetrics and one of a type of
\* its own
Reporters ==
    { [type |-> "*OTelMetrics", id |-> 1], [type |-> "*OTelMetrics", id |-> 2],
      [type |-> "*userMetrics", id |-> 1] }

\* atomic.Value.Store(m): a value of another concrete type than the one
\* stored first panics, as does nil, and stores nothing
Store(value, m) ==
    IF m = NilMetrics \/ (value # NilMetrics /\ value.type # m.type)
    THEN [value |-> value, panicked |-> TRUE]
    ELSE [value |-> m, panicked |-> FALSE]

\* SetGlobalMetrics(m)
SetGlobalMetrics(value, m) == Store(value, IF m = NilMetrics THEN Noop ELSE m)

\* GetGlobalMetrics()
GetGlobalMetrics(value) == IF value = NilMetrics THEN Noop ELSE value

NoSet == [called |-> FALSE, m |-> NilMetrics, panicked |-> FALSE]

GlobalMetricsInit ==
    /\ globalMetrics = NilMetrics
    /\ lastSet = NoSet
    /\ got = [g \in Callers |-> NilMetrics]
    /\ NoExecute
    /\ ConstructionIdle
    /\ BreakerIdle
    /\ WindowIdle
    /\ LockIdle
    /\ ExponentialIdle

\* a goroutine calls SetGlobalMetrics(m)
SetGlobalMetricsCall(m) ==
    /\ LET r == SetGlobalMetrics(globalMetrics, m)
       IN  /\ globalMetrics' = r.value
           /\ lastSet' = [called |-> TRUE, m |-> m, panicked |-> r.panicked]
    /\ UNCHANGED <<got, vars, constructionVars, breakerVars, windowVars, lockVars,
                   exponentialVars>>

\* goroutine g calls GetGlobalMetrics()
GetGlobalMetricsCall(g) ==
    /\ got' = [got EXCEPT ![g] = GetGlobalMetrics(globalMetrics)]
    /\ UNCHANGED <<globalMetrics, lastSet, vars, constructionVars, breakerVars,
                   windowVars, lockVars, exponentialVars>>

GlobalMetricsNext ==
    \/ \E m \in Reporters \cup {NilMetrics} : SetGlobalMetricsCall(m)
    \/ \E g \in Callers : GetGlobalMetricsCall(g)

GlobalMetricsSpec == GlobalMetricsInit /\ [][GlobalMetricsNext]_allVars

(***************************************************************************)
(* C29.  The global reporter can be installed and replaced any number of   *)
(* times with reporters of any implementation: SetGlobalMetrics(m)         *)
(* returns, and from then on GetGlobalMetrics returns m, or a Noop         *)
(* reporter when m is nil or nothing was installed yet.                    *)
(*                                                                         *)
(* C29_Original is the statement as made.  The atomic.Value takes values   *)
(* of one concrete type only: replacing a reporter by one of another       *)
(* type, or by nil, for which a *NoopMetrics is stored, panics and leaves  *)
(* the earlier reporter installed.                                         *)
(***************************************************************************)
C29_Original ==
    /\ ~lastSet.panicked
    /\ GetGlobalMetrics(globalMetrics) =
         IF lastSet.called /\ lastSet.m # NilMetrics THEN lastSet.m ELSE Noop

(***************************************************************************)
(* C30.  When retry.Execute ends without success and not by a canceled     *)
(* wait, that is with Outcome.FailureReason non_retryable or exhausted,    *)
(* the backoff records emitted are one fewer than the attempts held by the *)
(* RetryError; when the first attempt succeeds no backoff record is        *)
(* emitted.                                                                *)
(***************************************************************************)
C30_BackoffRecords ==
    Returned =>
        /\ /\ outcome.Status = OutcomeStatusError
           /\ outcome.FailureReason \in {OutcomeFailureReasonNonRetryable,
                                         OutcomeFailureReasonExhausted}
           => /\ ret.isRetryErr
              /\ retryErr.TerminationError = Nil
              /\ CountOf("backoff") = Len(retryErr.Attempts) - 1
        /\ outcome.Status = OutcomeStatusSuccess /\ attemptCount = 1 =>
             CountOf("backoff") = 0

\* three attempts failed and exhausted the policy, with two backoff records
C30_Witness ==
    /\ Returned
    /\ outcome.FailureReason = OutcomeFailureReasonExhausted
    /\ Len(retryErr.Attempts) = 3
    /\ CountOf("backoff") = 2

(***************************************************************************)
(* C31.  The breaker emits telemetry through its configured Metrics        *)
(* reporter: every state transition is reported with                       *)
(* RecordStateTransition, every admitted call's result with                *)
(* RecordCallResult, and every rejected call with RecordCallRejection.     *)
(* The claim as stated: once before() has rejected a call the reporter     *)
(* holds a rejection, once after() has run it holds a call result, and     *)
(* once the breaker, which starts Closed, is in another state it holds a   *)
(* transition.  circuitBreakerImpl has no reporter field and before, after *)
(* and setStateUnsafe call no reporter, so nothing is ever handed over.    *)
(***************************************************************************)
C31_Original ==
    /\ lastCall.op = "before" /\ lastCall.err # Nil =>
         \E i \in 1..Len(reported) : reported[i].kind = "RecordCallRejection"
    /\ lastCall.op = "after" =>
         \E i \in 1..Len(reported) : reported[i].kind = "RecordCallResult"
    /\ cb.state # StateClosed =>
         \E i \in 1..Len(reported) : reported[i].kind = "RecordStateTransition"

(***************************************************************************)
(* Concurrent callers of one breaker, each call in flight tagged with what *)
(* before() admitted it with: "closed" while the breaker was Closed,       *)
(* "lease" for a lease of the HalfOpen episode under way, "stale" for a    *)
(* lease of an episode that is over.                                       *)
(***************************************************************************)
\* the tags once before() has answered caller c
TicketsBefore(c, r) ==
    IF r.err # Nil THEN ticket
    ELSE [ticket EXCEPT ![c] = IF r.cb.state = StateHalfOpen THEN "lease" ELSE "closed"]

\* the tags once after() has recorded the call of caller c and taken the
\* breaker from b to next
TicketsAfter(c, b, next) ==
    [d \in Callers |->
        IF d = c THEN "none"
        ELSE IF b.state = StateHalfOpen /\ next.state # StateHalfOpen /\ ticket[d] = "lease"
        THEN "stale"
        ELSE ticket[d]]

EpisodeBefore(c) ==
    /\ ExecuteBefore(c)
    /\ ticket' = TicketsBefore(c, before(cb))

EpisodeComplete(c, ctxError, f, duration) ==
    /\ ExecuteAfter(c, ctxError, f, duration)
    /\ ticket' = TicketsAfter(c, cb, cb')

EpisodeNext ==
    \/ Tick
    \/ \E c \in Callers : EpisodeBefore(c)
    \/ \E c \in Callers, ctxError \in {Nil, Canceled}, f \in FnBehaviours,
          duration \in {0, 1} :
         EpisodeComplete(c, ctxError, f, duration)

EpisodeSpec == BreakerInit /\ [][EpisodeNext]_allVars

(***************************************************************************)
(* C32.  A HalfOpen breaker always leaves HalfOpen once its permitted      *)
(* probe calls are done, whatever they return: the breaker is never        *)
(* HalfOpen with every lease handed out and every call that took one back  *)
(* through after().  The claim as stated, for breakers that permit at      *)
(* least one call in HalfOpen.                                             *)
(***************************************************************************)
C32_Original ==
    ~ /\ cb.config.PermittedNumberOfCallsInHalfOpenState >= 1
      /\ cb.state = StateHalfOpen
      /\ cb.halfOpenLeases = 0
      /\ \A c \in Callers : ticket[c] # "lease"

(***************************************************************************)
(* C33.  Only calls admitted with a lease of the current HalfOpen episode  *)
(* count toward leaving HalfOpen: a call admitted while Closed or in an    *)
(* earlier episode that completes while the breaker is HalfOpen leaves     *)
(* halfOpenCompletedLeases as it was, halfOpenCompletedLeases never        *)
(* exceeds the leases handed out in the episode, and HalfOpen is never     *)
(* left while a call holding a lease of the episode is in flight.  The     *)
(* claim as stated, for breakers that permit at least one call in          *)
(* HalfOpen.                                                               *)
(***************************************************************************)
C33_Original ==
    /\ [](cb.config.PermittedNumberOfCallsInHalfOpenState >= 1 =>
          /\ cb.state = StateHalfOpen =>
               cb.halfOpenCompletedLeases <=
                 cb.config.PermittedNumberOfCallsInHalfOpenState - cb.halfOpenLeases
          /\ \A c \in Callers : ticket[c] # "stale")
    /\ [][\A c \in Callers, ctxError \in {Nil, Canceled}, f \in FnBehaviours,
             duration \in {0, 1} :
            /\ EpisodeComplete(c, ctxError, f, duration)
            /\ cb.config.PermittedNumberOfCallsInHalfOpenState >= 1
            /\ cb.state = StateHalfOpen
            /\ ticket[c] # "lease"
            => /\ cb'.state = StateHalfOpen
               /\ cb'.halfOpenCompletedLeases = cb.halfOpenCompletedLeases
         ]_allVars

(***************************************************************************)
(* C34.  A backoff wait in retry.Execute that begins when the parent       *)
(* context is already canceled, or during which the parent context is      *)
(* canceled, always ends the sequence with the context's error as          *)
(* TerminationError and no further attempt, whatever the backoff           *)
(* duration.  The claim as stated: once the context was canceled during    *)
(* wait k, or during attempt k with wait k begun afterwards, the waiter    *)
(* does not wake on its timer, attemptCount stays k, and Execute returns   *)
(* the RetryError with TerminationError = ctx.Err().                       *)
(***************************************************************************)
\* the parent context was canceled during a wait, or before a wait that has
\* begun since
C34_WaitUnderCancel ==
    \/ cancelAt.pc \in {"waitEnter", "waitBlocked"}
    \/ /\ cancelAt.pc \in {"attempt", "safeExecute", "inFn"}
       /\ waits >= cancelAt.attempt

C34_Original ==
    C34_WaitUnderCancel =>
        /\ pc \in {"waitEnter", "wokenDone", "done"}
        /\ attemptCount = cancelAt.attempt
        /\ Returned =>
             /\ ret.isRetryErr
             /\ retryErr.TerminationError = ctxErr

(***************************************************************************)
(* C35.  With attemptTimeout > 0, an attempt whose function is running     *)
(* when the deadline of its child context passes, and returns the          *)
(* context's error, is reported with FailureReason = timeout while the     *)
(* parent context is not canceled, and as retryable when the policy has    *)
(* neither an error predicate nor error lists; the child context is        *)
(* canceled whenever the engine is past an attempt; and a sequence whose   *)
(* attempts all failed with reason timeout under such a policy, the parent *)
(* never canceled, ends exhausted after maxAttempts attempts with no       *)
(* TerminationError.                                                       *)
(***************************************************************************)
\* the policy classifies errors as DefaultPolicy does
C35_DefaultErrors ==
    /\ ~policy.retryOnErrorPredicate.set
    /\ policy.retryErrors = <<>>
    /\ policy.ignoreErrors = <<>>

C35_ChildCanceled ==
    pc \in {"waitEnter", "waitBlocked", "wokenDone", "wokenTimer", "done"} =>
        attemptCtxErr \notin {Nil, NoCtx}

C35_AllTimedOut ==
    /\ Returned
    /\ ctxErr = Nil
    /\ C35_DefaultErrors
    /\ \A i \in IndicesOf("attempt") :
         events[i].FailureReason = AttemptFailureReasonTimeout

C35_Exhausted ==
    C35_AllTimedOut =>
        /\ outcome.Status = OutcomeStatusError
        /\ outcome.FailureReason = OutcomeFailureReasonExhausted
        /\ LastEvent.FailureReason = OutcomeFailureReasonExhausted
        /\ ret.isRetryErr
        /\ retryErr.TerminationError = Nil
        /\ Len(retryErr.Attempts) = policy.maxAttempts
        /\ \A i \in 1..Len(retryErr.Attempts) : retryErr.Attempts[i].Retryable

C35_AttemptTimeout ==
    /\ [](C35_ChildCanceled /\ C35_Exhausted)
    /\ [][\A r \in FnReturns :
            /\ FnReturn(r)
            /\ policy.attemptTimeout > 0
            /\ ctxErr = Nil
            /\ attemptCtxErr = DeadlineExceeded
            /\ r.e = attemptCtxErr
            => /\ ctxErr' = Nil
               /\ attemptCtxErr' = DeadlineExceeded
               /\ events'[Len(events) + 1].kind = "attempt"
               /\ events'[Len(events) + 1].Number = attemptCount
               /\ events'[Len(events) + 1].Status = AttemptStatusError
               /\ events'[Len(events) + 1].FailureReason = AttemptFailureReasonTimeout
               /\ events'[Len(events) + 1].Error = DeadlineExceeded
               /\ C35_DefaultErrors => events'[Len(events) + 1].Retryable
         ]_vars

\* two attempts were cut short by their deadline and the sequence is exhausted
C35_Witness ==
    /\ C35_AllTimedOut
    /\ policy.attemptTimeout > 0
    /\ policy.maxAttempts = 2
    /\ fnCalls = 2
    /\ attemptCtxErr = DeadlineExceeded
    /\ Len(retryErr.Attempts) = 2
    /\ outcome.FailureReason = OutcomeFailureReasonExhausted

(***************************************************************************)
(* C36.  After any sequence of n RecordOutcome calls since the last reset  *)
(* on a count window of capacity C, the success, failure and slow counters *)
(* are the tallies of the most recent min(n, C) outcomes only, SlowSuccess *)
(* counting as a success and as slow, SlowFailure as a failure and as      *)
(* slow; and each record beyond C overwrites the slot of the oldest of the *)
(* outcomes held, the one recorded C calls earlier.                        *)
(***************************************************************************)
\* the most recent min(n, C) outcomes, oldest first
C36_Recent ==
    SubSeq(past, Len(past) - Min(Len(past), capacity) + 1, Len(past))

C36_Tallies ==
    /\ Len(past) = sinceReset
    /\ window.successCount = Tally(C36_Recent, {OutcomeSuccess, OutcomeSlowSuccess})
    /\ window.failureCount = Tally(C36_Recent, {OutcomeFailure, OutcomeSlowFailure})
    /\ window.slowCallCount = Tally(C36_Recent, {OutcomeSlowSuccess, OutcomeSlowFailure})
    /\ WindowSize(window) = Len(C36_Recent)
    /\ \A o \in {OutcomeSuccess, OutcomeFailure, OutcomeSlowSuccess, OutcomeSlowFailure} :
         Tally(window.ring, {o}) = Tally(C36_Recent, {o})

C36_SlidingCounters ==
    /\ []C36_Tallies
    /\ [][\A o \in {OutcomeSuccess, OutcomeFailure, OutcomeSlowSuccess,
                    OutcomeSlowFailure} :
            RecordOutcomeCall(o) /\ Len(past) >= capacity
            => /\ window.ring[window.at] = past[Len(past) - capacity + 1]
               /\ window'.ring = [window.ring EXCEPT ![window.at] = o]
         ]_allVars

\* two slow failures filled a window of two slots and two successes have
\* pushed them out: nothing of them is left in the counters
C36_Witness ==
    /\ capacity = 2
    /\ past = <<OutcomeSlowFailure, OutcomeSlowFailure, OutcomeSuccess, OutcomeSuccess>>
    /\ window.successCount = 2
    /\ window.failureCount = 0
    /\ window.slowCallCount = 0

(***************************************************************************)
(* C37.  The retry engine computes the wait after the k-th failed attempt  *)
(* as backoff.Next(k), k the number of the attempt just completed (at      *)
(* least 1): every backoff record follows k attempt records, carries the   *)
(* duration Next(k), which for Linear(interval) is k x interval and for    *)
(* Fixed(interval) is interval, and carries the number k + 1 of the        *)
(* attempt to come.                                                        *)
(***************************************************************************)
\* the attempt records among the first i records
C37_AttemptsBefore(i) == Cardinality({j \in IndicesOf("attempt") : j < i})

C37_BackoffIndexing ==
    \A i \in IndicesOf("backoff") :
        LET k == C37_AttemptsBefore(i)
        IN  /\ k >= 1
            /\ events[i - 1].kind = "attempt"
            /\ events[i - 1].Number = k
            /\ events[i].Number = k + 1
            /\ events[i].Duration =
                 IF policy.backoff.kind = "linear" THEN k * policy.backoff.interval
                 ELSE policy.backoff.interval

\* three attempts under Linear(1): the waits reported are 1 and 2 long, for
\* the attempts 2 and 3
C37_Witness ==
    /\ Returned
    /\ policy.backoff = [kind |-> "linear", interval |-> 1]
    /\ CountOf("attempt") = 3
    /\ \E i, j \in IndicesOf("backoff") :
         /\ i < j
         /\ events[i].Number = 2 /\ events[i].Duration = 1
         /\ events[j].Number = 3 /\ events[j].Duration = 2

(***************************************************************************)
(* The retry engine with a user function that may panic.  retry's          *)
(* safeExecute has no recover: the panic unwinds executeAttempt, whose     *)
(* deferred attemptCancel runs, and execute, whose deferred function       *)
(* reports the outcome, and reaches the caller of Execute.                 *)
(***************************************************************************)
\* the user function panics
FnPanic ==
    /\ pc = "inFn"
    /\ attemptCtxErr' = IF attemptCtxErr = Nil THEN Canceled ELSE attemptCtxErr
    /\ events' = RecordOutcome(events, outcome, attemptCount)
    /\ pc' = "panicked"
    /\ UNCHANGED <<policy, ctxErr, attemptCount, retryErr, outcome, timerFired, ret,
                   fnCalls, waits, skips, last, cancelAt>>
    /\ UNCHANGED <<constructionVars, breakerVars, libraryVars>>

PanicNext ==
    \/ \E e \in {Canceled, DeadlineExceeded} : CancelParent(e)
    \/ DeadlineFire
    \/ TimerFire
    \/ Execute
    \/ AttemptScope
    \/ SafeExecute
    \/ \E r \in FnReturns : FnReturn(r)
    \/ FnPanic
    \/ SelectEnter
    \/ WaitCanceled
    \/ WaitElapsed

PanicSpec == Init /\ [][PanicNext]_vars

(***************************************************************************)
(* C38.  For every retry.Execute call and every exit path, the number of   *)
(* attempt records emitted equals the TotalAttempts of the emitted Outcome *)
(* and the number of attempts started; when Execute fails it also equals   *)
(* len(RetryError.Attempts).  As claimed, a panic of the user function     *)
(* being one of the ways out of Execute.                                   *)
(***************************************************************************)
\* attempts started: each one reaches safeExecute, which invokes the function
\* or returns the context's error in its place
C38_Started == fnCalls + skips

C38_Original ==
    pc \in {"done", "panicked"} =>
        /\ LastEvent.kind = "outcome"
        /\ CountOf("attempt") = LastEvent.TotalAttempts
        /\ CountOf("attempt") = C38_Started

(***************************************************************************)
(* C38, amended.  Whenever Execute returns, one outcome record has been    *)
(* emitted and the attempt records, its TotalAttempts and the attempts     *)
(* started are the same number, which is len(RetryError.Attempts) when     *)
(* Execute fails, a wait interrupted by cancellation included.  When the   *)
(* user function panics the outcome record is emitted all the same, with   *)
(* TotalAttempts the number of attempts started, Status error and no       *)
(* failure reason, and the attempt that panicked has no attempt record.    *)
(***************************************************************************)
C38_AttemptCounts ==
    /\ Returned =>
         /\ LastEvent.kind = "outcome"
         /\ CountOf("outcome") = 1
         /\ LastEvent.TotalAttempts = attemptCount
         /\ CountOf("attempt") = LastEvent.TotalAttempts
         /\ CountOf("attempt") = C38_Started
         /\ ret.isRetryErr => Len(retryErr.Attempts) = CountOf("attempt")
         /\ ~ret.isRetryErr => Len(retryErr.Attempts) = CountOf("attempt") - 1
    /\ pc = "panicked" =>
         /\ ~ret.returned
         /\ LastEvent.kind = "outcome"
         /\ CountOf("outcome") = 1
         /\ LastEvent.Status = OutcomeStatusError
         /\ LastEvent.FailureReason = ""
         /\ LastEvent.TotalAttempts = C38_Started
         /\ CountOf("attempt") = C38_Started - 1
         /\ Len(retryErr.Attempts) = CountOf("attempt")

\* the wait after the second failed attempt was interrupted by cancellation:
\* two attempts, two records, TotalAttempts = 2
C38_Witness ==
    /\ Returned
    /\ retryErr.TerminationError # Nil
    /\ waits = 2
    /\ CountOf("attempt") = 2
    /\ LastEvent.TotalAttempts = 2

(***************************************************************************)
(* C39.  The breaker state changes only along Closed -> Open (in after),   *)
(* Open -> HalfOpen (in before), HalfOpen -> Closed and HalfOpen -> Open   *)
(* (in after); there is no direct Closed -> HalfOpen or Open -> Closed     *)
(* step, State() returns the state and changes nothing, and a call that    *)
(* completes while the breaker is Open (the step that returns a caller to  *)
(* idle through after) leaves it Open.                                     *)
(***************************************************************************)
C39_Edges ==
    { <<StateClosed, StateOpen, "after">>,
      <<StateOpen, StateHalfOpen, "before">>,
      <<StateHalfOpen, StateClosed, "after">>,
      <<StateHalfOpen, StateOpen, "after">> }

C39_Transitions ==
    [][/\ cb'.state # cb.state =>
            <<cb.state, cb'.state, lastCall'.op>> \in C39_Edges
       /\ StateCall => cb' = cb /\ lastCall'.from = cb.state
       /\ (calls' # calls /\ lastCall'.op = "after" /\ cb.state = StateOpen)
            => /\ cb'.state = StateOpen
               /\ cb'.sinceTransition = cb.sinceTransition
      ]_allVars

\* State() has answered HALF_OPEN: the breaker went through Open to get
\* there, and both leases of the episode are out
C39_Witness ==
    /\ lastCall = [op |-> "State", err |-> Nil, from |-> StateHalfOpen,
                   invoked |-> FALSE]
    /\ cb.state = StateHalfOpen
    /\ cb.config.PermittedNumberOfCallsInHalfOpenState = 2
    /\ cb.halfOpenLeases = 0

(***************************************************************************)
(* C40.  Every change of the breaker's state, not only the entry into      *)
(* HalfOpen, empties the window and restarts the transition timestamp:     *)
(* right after it Size() = 0, no slot of the ring holds an outcome and all *)
(* counters are 0, so nothing recorded before the transition, the call     *)
(* that caused it included, is there for a later evaluation.               *)
(***************************************************************************)
C40_TransitionResets ==
    [][cb'.state # cb.state =>
         /\ WindowSize(cb'.window) = 0
         /\ cb'.window.successCount = 0
         /\ cb'.window.failureCount = 0
         /\ cb'.window.slowCallCount = 0
         /\ Len(cb'.window.ring) = Len(cb.window.ring)
         /\ \A i \in 1..Len(cb'.window.ring) : cb'.window.ring[i] = "nil"
         /\ CallRates(cb'.window).totalCalls = 0
         /\ cb'.sinceTransition = 0
      ]_allVars

\* a failed probe has taken the breaker from HalfOpen back to Open: the
\* window is empty and the wait starts again
C40_Witness ==
    /\ cb.state = StateOpen
    /\ lastCall.op = "after"
    /\ lastCall.from = StateHalfOpen
    /\ lastCall.err = E1
    /\ WindowSize(cb.window) = 0
    /\ cb.sinceTransition = 0

====
